---- MODULE Spec2Model ----
(***************************************************************************)
(* scheduling-primitives: the working calendar (layer 1) and the occupancy *)
(* bitmap (layer 2), with walk / allocate / deallocate, dynamic            *)
(* exceptions and checkpoint / restore.                                    *)
(*                                                                         *)
(* Representation.                                                         *)
(*   datetime   a naive datetime is the integer number of seconds since    *)
(*              Monday 00:00:00 of a reference week; a date is the integer *)
(*              day number (datetime \div SecondsPerDay); weekday 0 is     *)
(*              Monday.                                                    *)
(*   time       a time of day HH:MM is the integer HH * 60 + MM.           *)
(*   Optional   an optional value (deadline, snapshot) is a sequence of    *)
(*              length 0 (None) or 1.                                      *)
(*   bytearray  bits is the record [len, ones]: the length of the          *)
(*              bytearray and the set of indices that hold 1 (all others   *)
(*              hold 0).                                                   *)
(*   identity   deallocate compares records with "is"; an object in the    *)
(*              allocations list is identified by its position there.      *)
(***************************************************************************)
EXTENDS Integers, Sequences, FiniteSets, TLC

\* ------------------------------------------------------------------ helpers

Min(S) == CHOOSE x \in S : \A y \in S : x <= y

Max(S) == CHOOSE x \in S : \A y \in S : x >= y

max2(a, b) == IF a >= b THEN a ELSE b

min2(a, b) == IF a <= b THEN a ELSE b

Some(x) == <<x>>

NoneVal == <<>>

IsNone(o) == o = <<>>

\* Python range(a, b)
range(a, b) == a .. (b - 1)

\* the elements of a list
Elements(s) == {s[k] : k \in 1..Len(s)}

\* the sort keys of calendar.py: p[0] (by_end FALSE) and (p[0], p[1])
KeyLeq(by_end, p, q) ==
    IF by_end THEN p[1] < q[1] \/ (p[1] = q[1] /\ p[2] <= q[2])
    ELSE p[1] <= q[1]

\* list.sort(key=...) is a stable sort: each element is inserted after the
\* last element whose key is not greater.
RECURSIVE InsertSorted(_, _, _)
InsertSorted(x, s, by_end) ==
    IF s = <<>> THEN <<x>>
    ELSE IF KeyLeq(by_end, s[Len(s)], x) THEN Append(s, x)
    ELSE Append(InsertSorted(x, SubSeq(s, 1, Len(s) - 1), by_end), s[Len(s)])

RECURSIVE StableSort(_, _)
StableSort(s, by_end) ==
    IF s = <<>> THEN <<>>
    ELSE InsertSorted(s[Len(s)], StableSort(SubSeq(s, 1, Len(s) - 1), by_end), by_end)

\* ------------------------------------------------------------ datetime, time

SecondsPerDay == 24 * 60 * 60

\* datetime.date()
DateOf(dt) == dt \div SecondsPerDay

\* date.weekday(): 0 = Monday
WeekdayOf(d) == d % 7

\* time(0, 0)
Midnight == 0 * 60 + 0

\* datetime.combine(d, t)
Combine(d, t) == d * SecondsPerDay + t * 60

\* ------------------------------------------------------------ TimeResolution

MINUTE == [unit_seconds |-> 60, label |-> "minute"]

HOUR == [unit_seconds |-> 3600, label |-> "hour"]

\* TimeResolution.to_int for naive datetimes: the misalignment error or the
\* exact quotient.
to_int(resolution, dt, epoch) ==
    LET delta_seconds == dt - epoch
        remainder == delta_seconds % resolution.unit_seconds
    IN  IF remainder # 0
        THEN [raised |-> "ValueError", value |-> 0]
        ELSE [raised |-> "", value |-> delta_seconds \div resolution.unit_seconds]

\* TimeResolution.to_datetime
to_datetime(resolution, t, epoch) == epoch + t * resolution.unit_seconds

\* a datetime with its sub-second part and its tzinfo: seconds since Monday
\* 00:00:00, microsecond 0 or 500000, tzinfo None or an offset
Datetime(seconds, microsecond, tzinfo) ==
    [seconds |-> seconds, microsecond |-> microsecond, tzinfo |-> tzinfo]

HalfSecond == 500000

\* (dt - epoch) in half seconds
HalvesBetween(dt, epoch) ==
    (dt.seconds - epoch.seconds) * 2
        + (dt.microsecond \div HalfSecond) - (epoch.microsecond \div HalfSecond)

\* int(timedelta.total_seconds()): the fraction is cut off towards zero
int_total_seconds(halves) ==
    IF halves >= 0 THEN halves \div 2 ELSE 0 - ((0 - halves) \div 2)

\* _reject_aware: whether the TypeError is raised
reject_aware(dt) == ~IsNone(dt.tzinfo)

\* TimeResolution.to_int
TimeResolution_to_int(resolution, dt, epoch) ==
    IF reject_aware(dt) \/ reject_aware(epoch)
    THEN [raised |-> "TypeError", value |-> 0]
    ELSE LET delta_seconds == int_total_seconds(HalvesBetween(dt, epoch))
             remainder == delta_seconds % resolution.unit_seconds
         IN  IF remainder # 0
             THEN [raised |-> "ValueError", value |-> 0]
             ELSE [raised |-> "", value |-> delta_seconds \div resolution.unit_seconds]

\* TimeResolution.to_datetime with t seconds added to the epoch
TimeResolution_to_datetime_seconds(resolution, t, epoch) ==
    IF reject_aware(epoch)
    THEN [raised |-> "TypeError", value |-> epoch]
    ELSE [raised |-> "",
          value |-> [epoch EXCEPT !.seconds = @ + t]]

\* TimeResolution.to_datetime
TimeResolution_to_datetime(resolution, t, epoch) ==
    IF reject_aware(epoch)
    THEN [raised |-> "TypeError", value |-> epoch]
    ELSE [raised |-> "",
          value |-> [epoch EXCEPT !.seconds = @ + t * resolution.unit_seconds]]

\* ------------------------------------------------------------ WorkingCalendar

\* _is_overnight(start, end)
is_overnight(start, end) ==
    IF end = Midnight /\ start # Midnight THEN TRUE ELSE end < start

\* WorkingCalendar.__init__: rules maps a weekday to its periods, sorted by
\* start; exceptions maps a date to its list of entries.
WorkingCalendar(pattern_id, rules, exceptions) ==
    [pattern_id |-> pattern_id,
     rules |-> [day \in DOMAIN rules |-> StableSort(rules[day], FALSE)],
     exceptions |-> exceptions]

\* the same-day portions of a weekday's rules (calendar.py, first loop of
\* _resolve_rules)
RECURSIVE SameDayPeriods(_)
SameDayPeriods(ps) ==
    IF ps = <<>> THEN <<>>
    ELSE LET start == ps[1][1]
             end == ps[1][2]
         IN  <<IF is_overnight(start, end) THEN <<start, Midnight>> ELSE <<start, end>>>>
             \o SameDayPeriods(Tail(ps))

\* the next-day tails of the previous weekday's overnight rules (second loop)
RECURSIVE CarryoverPeriods(_)
CarryoverPeriods(ps) ==
    IF ps = <<>> THEN <<>>
    ELSE LET start == ps[1][1]
             end == ps[1][2]
         IN  (IF is_overnight(start, end) /\ end # Midnight
              THEN <<<<Midnight, end>>>> ELSE <<>>)
             \o CarryoverPeriods(Tail(ps))

\* a _resolve_rules that carries nothing out of a previous date that has
\* exception entries
resolve_rules_unless_exception(cal, d) ==
    LET weekday == WeekdayOf(d)
        prev_weekday == WeekdayOf(d - 1)
        same == IF weekday \in DOMAIN cal.rules
                THEN SameDayPeriods(cal.rules[weekday]) ELSE <<>>
        carry == IF prev_weekday \in DOMAIN cal.rules /\ (d - 1) \notin DOMAIN cal.exceptions
                 THEN CarryoverPeriods(cal.rules[prev_weekday]) ELSE <<>>
    IN  StableSort(same \o carry, TRUE)

\* WorkingCalendar._resolve_rules
resolve_rules(cal, d) ==
    LET weekday == WeekdayOf(d)
        prev_weekday == WeekdayOf(d - 1)
        same == IF weekday \in DOMAIN cal.rules
                THEN SameDayPeriods(cal.rules[weekday]) ELSE <<>>
        carry == IF prev_weekday \in DOMAIN cal.rules
                 THEN CarryoverPeriods(cal.rules[prev_weekday]) ELSE <<>>
    IN  StableSort(same \o carry, TRUE)

\* entry.get("is_working", default)
EntryIsWorking(entry, default) ==
    IF "is_working" \in DOMAIN entry THEN entry.is_working ELSE default

\* the (start, end) of the is_working=True entries, in order
RECURSIVE WorkingEntryPeriods(_)
WorkingEntryPeriods(entries) ==
    IF entries = <<>> THEN <<>>
    ELSE (IF EntryIsWorking(entries[1], FALSE)
          THEN <<<<entries[1].start, entries[1].end>>>> ELSE <<>>)
         \o WorkingEntryPeriods(Tail(entries))

\* a _resolve_exceptions that starts from the rules and the carryover on a
\* cleared date too
resolve_exceptions_over_rules(cal, d) ==
    StableSort(resolve_rules(cal, d) \o WorkingEntryPeriods(cal.exceptions[d]), FALSE)

\* WorkingCalendar._resolve_exceptions
resolve_exceptions(cal, d) ==
    LET entries == cal.exceptions[d]
        has_full_removal ==
            \E k \in 1..Len(entries) :
                /\ ~EntryIsWorking(entries[k], TRUE)
                /\ "start" \notin DOMAIN entries[k]
                /\ "end" \notin DOMAIN entries[k]
        periods == IF has_full_removal
                   THEN WorkingEntryPeriods(entries)
                   ELSE resolve_rules(cal, d) \o WorkingEntryPeriods(entries)
    IN  StableSort(periods, FALSE)

\* WorkingCalendar.periods_for_date
periods_for_date(cal, d) ==
    IF d \in DOMAIN cal.exceptions
    THEN resolve_exceptions(cal, d)
    ELSE resolve_rules(cal, d)

\* the loop of _datetime_intervals_for_date over the periods
PeriodIntervals(d, periods) ==
    [k \in 1..Len(periods) |->
        <<Combine(d, periods[k][1]),
          IF periods[k][2] = Midnight
          THEN Combine(d + 1, Midnight)
          ELSE Combine(d, periods[k][2])>>]

\* WorkingCalendar._datetime_intervals_for_date
datetime_intervals_for_date(cal, d) == PeriodIntervals(d, periods_for_date(cal, d))

\* the clamped, non-empty intervals of one date (inner loop of
\* working_intervals_in_range)
RECURSIVE ClampedIntervals(_, _, _)
ClampedIntervals(ivs, start, end) ==
    IF ivs = <<>> THEN <<>>
    ELSE LET effective_start == max2(ivs[1][1], start)
             effective_end == min2(ivs[1][2], end)
         IN  (IF effective_start < effective_end
              THEN <<<<effective_start, effective_end>>>> ELSE <<>>)
             \o ClampedIntervals(Tail(ivs), start, end)

\* the outer loop of working_intervals_in_range over the dates
\* first_date .. last_date, in ascending order (the range of dates is split
\* in two halves to keep the evaluation shallow)
RECURSIVE IntervalsOfDates(_, _, _, _, _)
IntervalsOfDates(cal, first_date, last_date, start, end) ==
    IF first_date > last_date THEN <<>>
    ELSE IF first_date = last_date
    THEN ClampedIntervals(datetime_intervals_for_date(cal, first_date), start, end)
    ELSE LET mid == (first_date + last_date) \div 2
         IN  IntervalsOfDates(cal, first_date, mid, start, end)
             \o IntervalsOfDates(cal, mid + 1, last_date, start, end)

\* WorkingCalendar.working_intervals_in_range, as the sequence it yields
working_intervals_in_range(cal, start, end) ==
    IntervalsOfDates(cal, DateOf(start), DateOf(end), start, end)

\* int((b - a).total_seconds()) // 60 for datetimes a, b
WholeMinutes(a, b) == (b - a) \div 60

\* a forward loop that measures every interval from its start, the cursor
\* not clamped into it
RECURSIVE AddOverIntervalsUnclamped(_, _, _)
AddOverIntervalsUnclamped(ivs, remaining, current_time) ==
    IF ivs = <<>>
    THEN [done |-> FALSE, value |-> current_time, remaining |-> remaining]
    ELSE LET iv_start == ivs[1][1]
             iv_end == ivs[1][2]
             available == WholeMinutes(iv_start, iv_end)
         IN  IF iv_end <= current_time
             THEN AddOverIntervalsUnclamped(Tail(ivs), remaining, current_time)
             ELSE IF remaining <= available
             THEN [done |-> TRUE, value |-> iv_start + remaining * 60, remaining |-> 0]
             ELSE AddOverIntervalsUnclamped(Tail(ivs), remaining - available, iv_end)

\* add_minutes: the for loop over the intervals of one date, entered with
\* remaining and current_time; it returns (done) or runs out of intervals
RECURSIVE AddOverIntervals(_, _, _)
AddOverIntervals(ivs, remaining, current_time) ==
    IF ivs = <<>>
    THEN [done |-> FALSE, value |-> current_time, remaining |-> remaining]
    ELSE LET iv_start == ivs[1][1]
             iv_end == ivs[1][2]
             effective_start == max2(iv_start, current_time)
             available == WholeMinutes(effective_start, iv_end)
         IN  IF iv_end <= current_time
             THEN AddOverIntervals(Tail(ivs), remaining, current_time)
             ELSE IF available <= 0
             THEN AddOverIntervals(Tail(ivs), remaining, current_time)
             ELSE IF remaining <= available
             THEN [done |-> TRUE, value |-> effective_start + remaining * 60,
                   remaining |-> 0]
             ELSE AddOverIntervals(Tail(ivs), remaining - available, iv_end)

\* add_minutes: the while remaining > 0 loop, date by date; r is how the
\* for loop of current_date ended
RECURSIVE AddAfterDate(_, _, _)
AddAfterDate(cal, current_date, r) ==
    IF r.done THEN r.value
    ELSE AddAfterDate(cal, current_date + 1,
             AddOverIntervals(datetime_intervals_for_date(cal, current_date + 1),
                              r.remaining, Combine(current_date + 1, Midnight)))

\* WorkingCalendar.add_minutes
add_minutes(cal, start, minutes) ==
    IF minutes = 0 THEN start
    ELSE AddAfterDate(cal, DateOf(start),
             AddOverIntervals(datetime_intervals_for_date(cal, DateOf(start)),
                              minutes, start))

\* working_minutes_between: the for loop over the intervals of one date
RECURSIVE MinutesOverIntervals(_, _, _)
MinutesOverIntervals(ivs, start, end) ==
    IF ivs = <<>> THEN 0
    ELSE LET effective_start == max2(ivs[1][1], start)
             effective_end == min2(ivs[1][2], end)
         IN  (IF effective_start < effective_end
              THEN WholeMinutes(effective_start, effective_end) ELSE 0)
             + MinutesOverIntervals(Tail(ivs), start, end)

\* working_minutes_between: the while current_date <= end_date loop
RECURSIVE MinutesOverDates(_, _, _, _, _)
MinutesOverDates(cal, current_date, end_date, start, end) ==
    IF current_date > end_date THEN 0
    ELSE MinutesOverIntervals(datetime_intervals_for_date(cal, current_date), start, end)
         + MinutesOverDates(cal, current_date + 1, end_date, start, end)

\* WorkingCalendar.working_minutes_between
working_minutes_between(cal, start, end) ==
    IF start >= end THEN 0
    ELSE MinutesOverDates(cal, DateOf(start), DateOf(end), start, end)

\* reversed(intervals)
Reversed(s) == [k \in 1..Len(s) |-> s[Len(s) + 1 - k]]

\* subtract_minutes: the for loop over the reversed intervals of one date
RECURSIVE SubtractOverIntervals(_, _, _)
SubtractOverIntervals(ivs, remaining, current_time) ==
    IF ivs = <<>>
    THEN [done |-> FALSE, value |-> current_time, remaining |-> remaining]
    ELSE LET iv_start == ivs[1][1]
             iv_end == ivs[1][2]
             effective_end == min2(iv_end, current_time)
             available == WholeMinutes(iv_start, effective_end)
         IN  IF iv_start >= current_time
             THEN SubtractOverIntervals(Tail(ivs), remaining, current_time)
             ELSE IF available <= 0
             THEN SubtractOverIntervals(Tail(ivs), remaining, current_time)
             ELSE IF remaining <= available
             THEN [done |-> TRUE, value |-> effective_end - remaining * 60,
                   remaining |-> 0]
             ELSE SubtractOverIntervals(Tail(ivs), remaining - available, iv_start)

\* subtract_minutes: the while remaining > 0 loop, date by date backwards;
\* the cursor restarts at the midnight that ends the earlier date
RECURSIVE SubtractAfterDate(_, _, _)
SubtractAfterDate(cal, current_date, r) ==
    IF r.done THEN r.value
    ELSE SubtractAfterDate(cal, current_date - 1,
             SubtractOverIntervals(
                 Reversed(datetime_intervals_for_date(cal, current_date - 1)),
                 r.remaining, Combine(current_date, Midnight)))

\* WorkingCalendar.subtract_minutes
subtract_minutes(cal, end, minutes) ==
    IF minutes = 0 THEN end
    ELSE SubtractAfterDate(cal, DateOf(end),
             SubtractOverIntervals(
                 Reversed(datetime_intervals_for_date(cal, DateOf(end))),
                 minutes, end))

\* ------------------------------------------------------------ OccupancyBitmap

DEFAULT_EXTEND_DAYS == 7

\* the buffer of the extension at the top of the non-splittable loop
EXTEND_BUFFER == 1440

\* the 1440 of "_DEFAULT_EXTEND_DAYS * 1440" in the walks
UNITS_PER_DAY == 1440

\* bytearray(size): all zeros
bytearray(size) == [len |-> size, ones |-> {}]

\* bits[i] for 0 <= i < len
BitAt(bits, i) == IF i \in bits.ones THEN 1 ELSE 0

\* OccupancyBitmap.horizon_end
horizon_end(bitmap) == bitmap.horizon_begin + bitmap.bits.len

\* FillRange with the unit at the end of the interval set as well
FillRangeInclusive(len, bits_offset, resolution, epoch, iv) ==
    LET start_int == to_int(resolution, iv[1], epoch).value - bits_offset
        end_int == to_int(resolution, iv[2], epoch).value - bits_offset
    IN  range(max2(0, start_int), min2(len, end_int + 1))

\* the indices one interval sets to 1 (body of the loop of
\* _fill_bits_from_calendar)
FillRange(len, bits_offset, resolution, epoch, iv) ==
    LET start_int == to_int(resolution, iv[1], epoch).value - bits_offset
        end_int == to_int(resolution, iv[2], epoch).value - bits_offset
    IN  range(max2(0, start_int), min2(len, end_int))

\* _fill_bits_from_calendar, for a calendar whose periods align to the
\* resolution (to_int raises on no interval)
fill_bits_from_calendar(bits, bits_offset, cal, resolution, epoch) ==
    LET dt_start == to_datetime(resolution, bits_offset, epoch)
        dt_end == to_datetime(resolution, bits_offset + bits.len, epoch)
    IN  [len |-> bits.len,
         ones |-> bits.ones \cup
                  UNION {FillRange(bits.len, bits_offset, resolution, epoch, iv) :
                         iv \in Elements(working_intervals_in_range(cal, dt_start, dt_end))}]

\* OccupancyBitmap.from_calendar
from_calendar(cal, horizon_start, horizon_stop, epoch, resolution) ==
    LET begin_int == to_int(resolution, horizon_start, epoch).value
        end_int == to_int(resolution, horizon_stop, epoch).value
        size == end_int - begin_int
    IN  [resource_id |-> cal.pattern_id,
         horizon_begin |-> begin_int,
         bits |-> fill_bits_from_calendar(bytearray(size), begin_int, cal, resolution, epoch),
         calendar |-> cal,
         resolution |-> resolution,
         epoch |-> epoch,
         allocations |-> <<>>]

\* an extend that writes the new bits from index 0 instead of appending them
BitsExtendUnshifted(bits, new_bits) ==
    [len |-> bits.len + new_bits.len,
     ones |-> bits.ones \cup new_bits.ones]

\* bytearray.extend
BitsExtend(bits, new_bits) ==
    [len |-> bits.len + new_bits.len,
     ones |-> bits.ones \cup {bits.len + i : i \in new_bits.ones}]

\* an _extend_to that fills the new region with the calendar of the start
\* of the horizon
extend_to_misplaced(bitmap, needed_end) ==
    IF needed_end <= horizon_end(bitmap) THEN bitmap
    ELSE LET min_extend == (DEFAULT_EXTEND_DAYS * 24 * 60 * 60)
                               \div bitmap.resolution.unit_seconds
             new_end == max2(needed_end, horizon_end(bitmap) + min_extend)
             extend_size == new_end - horizon_end(bitmap)
             new_bits == fill_bits_from_calendar(bytearray(extend_size),
                             bitmap.horizon_begin, bitmap.calendar,
                             bitmap.resolution, bitmap.epoch)
         IN  [bitmap EXCEPT !.bits = BitsExtend(bitmap.bits, new_bits)]

\* an _extend_to that builds the whole bit array anew from the calendar
extend_to_rebuilt(bitmap, needed_end) ==
    IF needed_end <= horizon_end(bitmap) THEN bitmap
    ELSE LET min_extend == (DEFAULT_EXTEND_DAYS * 24 * 60 * 60)
                               \div bitmap.resolution.unit_seconds
             new_end == max2(needed_end, horizon_end(bitmap) + min_extend)
         IN  [bitmap EXCEPT !.bits =
                  fill_bits_from_calendar(bytearray(new_end - bitmap.horizon_begin),
                      bitmap.horizon_begin, bitmap.calendar, bitmap.resolution,
                      bitmap.epoch)]

\* an _extend_to that appends up to needed_end only, without the minimum
\* of DEFAULT_EXTEND_DAYS days
extend_to_exact(bitmap, needed_end) ==
    IF needed_end <= horizon_end(bitmap) THEN bitmap
    ELSE LET old_end == horizon_end(bitmap)
             new_bits == fill_bits_from_calendar(bytearray(needed_end - old_end), old_end,
                             bitmap.calendar, bitmap.resolution, bitmap.epoch)
         IN  [bitmap EXCEPT !.bits = BitsExtend(bitmap.bits, new_bits)]

\* OccupancyBitmap._extend_to
extend_to(bitmap, needed_end) ==
    IF needed_end <= horizon_end(bitmap) THEN bitmap
    ELSE LET min_extend == (DEFAULT_EXTEND_DAYS * 24 * 60 * 60)
                               \div bitmap.resolution.unit_seconds
             new_end == max2(needed_end, horizon_end(bitmap) + min_extend)
             old_end == horizon_end(bitmap)
             extend_size == new_end - old_end
             new_bits == fill_bits_from_calendar(bytearray(extend_size), old_end,
                             bitmap.calendar, bitmap.resolution, bitmap.epoch)
         IN  [bitmap EXCEPT !.bits = BitsExtend(bitmap.bits, new_bits)]

\* a copy that hands the bytearray and the list of the original to the new
\* bitmap (bits=self.bits, _allocations=self._allocations)
copy_shallow(bitmap) ==
    [bitmap |-> [resource_id |-> bitmap.resource_id,
                 horizon_begin |-> bitmap.horizon_begin,
                 bits |-> bitmap.bits,
                 calendar |-> bitmap.calendar,
                 resolution |-> bitmap.resolution,
                 epoch |-> bitmap.epoch,
                 allocations |-> bitmap.allocations],
     shared |-> {"bits", "allocations"}]

\* OccupancyBitmap.copy: the new bitmap, and which of the mutable objects
\* of the original (the bytearray bits, the list _allocations) it holds
\* itself: none, bytearray(self.bits) and list(self._allocations) being new
\* objects
copy(bitmap) ==
    [bitmap |-> [resource_id |-> bitmap.resource_id,
                 horizon_begin |-> bitmap.horizon_begin,
                 bits |-> bitmap.bits,
                 calendar |-> bitmap.calendar,
                 resolution |-> bitmap.resolution,
                 epoch |-> bitmap.epoch,
                 allocations |-> bitmap.allocations],
     shared |-> {}]

\* OccupancyBitmap.checkpoint: the pickled pair (bytes(bits), list(allocations))
checkpoint(bitmap) == <<bitmap.bits, bitmap.allocations>>

\* a restore that puts back the bits and leaves the allocations list as
\* it is
restore_bits_only(bitmap, snap) ==
    [bitmap EXCEPT !.bits = snap[1]]

\* a restore that writes the snapshot over the first bits and keeps the rest
restore_without_truncation(bitmap, snap) ==
    LET bits_data == snap[1]
        allocations == snap[2]
    IN  [bitmap EXCEPT !.bits = [len |-> max2(bitmap.bits.len, bits_data.len),
                                 ones |-> bits_data.ones \cup
                                          {i \in bitmap.bits.ones : i >= bits_data.len}],
                       !.allocations = allocations]

\* OccupancyBitmap.restore: the slice assignment bits[:] = bits_data replaces
\* the whole content, so the truncation that follows finds nothing to delete
restore(bitmap, snap) ==
    LET bits_data == snap[1]
        allocations == snap[2]
        assigned == bits_data
        truncated == IF bits_data.len < assigned.len
                     THEN [len |-> bits_data.len,
                           ones |-> {i \in assigned.ones : i < bits_data.len}]
                     ELSE assigned
    IN  [bitmap EXCEPT !.bits = truncated, !.allocations = allocations]

\* ------------------------------------------------------------ types

\* AllocationRecord(...)
AllocationRecord(operation_id, resource_id, start, finish, work_units, allow_split, spans) ==
    [operation_id |-> operation_id, resource_id |-> resource_id, start |-> start,
     finish |-> finish, work_units |-> work_units, allow_split |-> allow_split,
     spans |-> spans]

\* InfeasibleError(...)
InfeasibleError(operation_id, work_units_remaining, work_units_requested, reason) ==
    [operation_id |-> operation_id, work_units_remaining |-> work_units_remaining,
     work_units_requested |-> work_units_requested, reason |-> reason]

\* how a call of walk or allocate ends: the bitmap as the call leaves it, and
\* either the record returned ("record") or the exception raised
\* ("InfeasibleError", "IndexError"); "cutoff" marks a call that is still
\* extending the bitmap when the horizon passes MaxHorizonEnd.
Returned(bitmap, record) ==
    [bitmap |-> bitmap, kind |-> "record", record |-> <<record>>, error |-> <<>>]

Raised(bitmap, kind, error) ==
    [bitmap |-> bitmap, kind |-> kind, record |-> <<>>, error |-> error]

\* the walks stop being followed once the horizon end passes this value
MaxHorizonEnd == 25000

\* ------------------------------------------------------------ walk

\* the scan "for a contiguous free run" of _walk_non_splittable over the
\* indices lo .. hi-1: the loop returns at the first index where run_length
\* reaches work_units, with run_start the start of that run; these are the
\* values run_start can take, the loop returning the smallest.
FitStarts(bits, lo, hi, work_units) ==
    {s \in bits.ones :
        /\ s >= lo
        /\ s < hi
        /\ s + work_units <= hi
        /\ \A k \in range(s, s + work_units) : BitAt(bits, k) = 1}

\* _walk_non_splittable: one pass of the while True loop from "Scan for
\* contiguous free run" on, the bitmap extended as the top of the loop
\* left it
RECURSIVE walk_non_splittable_loop(_, _, _, _, _)
walk_non_splittable_scan(bitmap, operation_id, pos, work_units, effective_deadline) ==
    LET scan_end == min2(horizon_end(bitmap),
                         IF ~IsNone(effective_deadline) THEN effective_deadline[1]
                         ELSE horizon_end(bitmap))
        fits == FitStarts(bitmap.bits, pos - bitmap.horizon_begin,
                          scan_end - bitmap.horizon_begin, work_units)
        run_start == Min(fits) + bitmap.horizon_begin
    IN  IF fits # {}
        THEN Returned(bitmap, AllocationRecord(operation_id, bitmap.resource_id, run_start,
                                  run_start + work_units, work_units, FALSE,
                                  <<<<run_start, run_start + work_units>>>>))
        ELSE IF ~IsNone(effective_deadline) /\ scan_end >= effective_deadline[1]
        THEN Raised(bitmap, "InfeasibleError",
                    <<InfeasibleError(operation_id, work_units, work_units, "deadline")>>)
        ELSE walk_non_splittable_loop(
                 IF pos + work_units > horizon_end(bitmap)
                 THEN extend_to(bitmap, horizon_end(bitmap)
                                            + DEFAULT_EXTEND_DAYS * UNITS_PER_DAY)
                 ELSE bitmap,
                 operation_id, scan_end, work_units, effective_deadline)

\* _walk_non_splittable: the while True loop, entered with pos
walk_non_splittable_loop(bitmap, operation_id, pos, work_units, effective_deadline) ==
    LET beyond == pos + work_units > horizon_end(bitmap)
        late == beyond /\ ~IsNone(effective_deadline) /\ pos >= effective_deadline[1]
    IN  IF horizon_end(bitmap) > MaxHorizonEnd THEN Raised(bitmap, "cutoff", <<>>)
        ELSE IF late
        THEN Raised(bitmap, "InfeasibleError",
                    <<InfeasibleError(operation_id, work_units, work_units, "deadline")>>)
        ELSE walk_non_splittable_scan(
                 IF beyond THEN extend_to(bitmap, pos + work_units + EXTEND_BUFFER)
                 ELSE bitmap,
                 operation_id, pos, work_units, effective_deadline)

\* _walk_non_splittable
walk_non_splittable(bitmap, operation_id, earliest_start, work_units, deadline) ==
    walk_non_splittable_loop(bitmap, operation_id,
                             max2(earliest_start, bitmap.horizon_begin),
                             work_units, deadline)

\* the end of the free run that starts at index p, scanned up to limit (the
\* inner while of _walk_splittable)
RunEnd(bits, p, limit) ==
    Min({q + 1 : q \in {x \in bits.ones :
                           x >= p /\ x < limit
                           /\ (x + 1 >= limit \/ BitAt(bits, x + 1) = 0)}})

\* a splittable scan that takes every qualifying run whole
RECURSIVE ConsumeWholeRuns(_, _, _, _, _, _)
ConsumeWholeRuns(bits, horizon_begin, i, limit, min_split, st) ==
    LET free == {x \in bits.ones : x >= i /\ x < limit}
        p == Min(free)
        run_start == p + horizon_begin
        run_end == RunEnd(bits, p, limit) + horizon_begin
        run_length == run_end - run_start
        taken == [remaining |-> st.remaining - run_length,
                  spans |-> Append(st.spans, <<run_start, run_end>>)]
    IN  IF free = {} THEN st
        ELSE IF run_length < min_split
        THEN ConsumeWholeRuns(bits, horizon_begin, run_end - horizon_begin, limit, min_split, st)
        ELSE IF taken.remaining <= 0 THEN taken
        ELSE ConsumeWholeRuns(bits, horizon_begin, run_end - horizon_begin, limit, min_split, taken)

\* "Find next free run": the scan of _walk_splittable from index i up to
\* limit, run by run; st = [remaining, spans]
RECURSIVE ConsumeRuns(_, _, _, _, _, _)
ConsumeRuns(bits, horizon_begin, i, limit, min_split, st) ==
    LET free == {x \in bits.ones : x >= i /\ x < limit}
        p == Min(free)
        run_start == p + horizon_begin
        run_end == RunEnd(bits, p, limit) + horizon_begin
        run_length == run_end - run_start
        consume == min2(run_length, st.remaining)
        taken == [remaining |-> st.remaining - consume,
                  spans |-> Append(st.spans, <<run_start, run_start + consume>>)]
    IN  IF free = {} THEN st
        ELSE IF run_length < min_split
        THEN ConsumeRuns(bits, horizon_begin, run_end - horizon_begin, limit, min_split, st)
        ELSE IF taken.remaining <= 0 THEN taken
        ELSE ConsumeRuns(bits, horizon_begin, run_end - horizon_begin, limit, min_split, taken)

RECURSIVE walk_splittable_loop(_, _, _, _, _, _, _)

\* an end of the pass that, when it raises, leaves the spans gathered so far
\* marked as occupied
walk_splittable_rest_marking(bitmap, operation_id, pos, work_units, min_split, deadline, st1) ==
    LET effective_end == min2(horizon_end(bitmap),
                              IF ~IsNone(deadline) THEN deadline[1]
                              ELSE horizon_end(bitmap))
        gathered == UNION {range(st1.spans[k][1] - bitmap.horizon_begin,
                                 st1.spans[k][2] - bitmap.horizon_begin) :
                           k \in 1..Len(st1.spans)}
    IN  IF st1.remaining > 0 /\ ~IsNone(deadline) /\ effective_end >= deadline[1]
        THEN Raised([bitmap EXCEPT !.bits.ones = @ \ gathered], "InfeasibleError",
                 <<InfeasibleError(operation_id, st1.remaining, work_units, "deadline")>>)
        ELSE IF st1.remaining > 0
        THEN walk_splittable_loop(
                 IF effective_end >= horizon_end(bitmap)
                 THEN extend_to(bitmap, effective_end + DEFAULT_EXTEND_DAYS * UNITS_PER_DAY)
                 ELSE bitmap,
                 operation_id, effective_end, work_units, min_split, deadline, st1)
        ELSE walk_splittable_loop(bitmap, operation_id, pos, work_units, min_split,
                                  deadline, st1)

\* _walk_splittable: the end of one pass of the while loop, st1 the
\* remaining units and the spans after "Find next free run"
walk_splittable_rest(bitmap, operation_id, pos, work_units, min_split, deadline, st1) ==
    LET effective_end == min2(horizon_end(bitmap),
                              IF ~IsNone(deadline) THEN deadline[1]
                              ELSE horizon_end(bitmap))
    IN  IF st1.remaining > 0 /\ ~IsNone(deadline) /\ effective_end >= deadline[1]
        THEN Raised(bitmap, "InfeasibleError",
                 <<InfeasibleError(operation_id, st1.remaining, work_units, "deadline")>>)
        ELSE IF st1.remaining > 0
        THEN walk_splittable_loop(
                 IF effective_end >= horizon_end(bitmap)
                 THEN extend_to(bitmap, effective_end + DEFAULT_EXTEND_DAYS * UNITS_PER_DAY)
                 ELSE bitmap,
                 operation_id, effective_end, work_units, min_split, deadline, st1)
        ELSE walk_splittable_loop(bitmap, operation_id, pos, work_units, min_split,
                                  deadline, st1)

\* _walk_splittable: one pass of the while loop from "effective_end = ..."
\* on, the bitmap extended as the top of the loop left it
walk_splittable_pass(bitmap, operation_id, pos, work_units, min_split, deadline, st) ==
    walk_splittable_rest(bitmap, operation_id, pos, work_units, min_split, deadline,
        ConsumeRuns(bitmap.bits, bitmap.horizon_begin, pos - bitmap.horizon_begin,
                    min2(horizon_end(bitmap),
                         IF ~IsNone(deadline) THEN deadline[1] ELSE horizon_end(bitmap))
                        - bitmap.horizon_begin,
                    min_split, st))

\* _walk_splittable: the while remaining > 0 loop, entered with pos and
\* st = [remaining, spans]
walk_splittable_loop(bitmap, operation_id, pos, work_units, min_split, deadline, st) ==
    LET beyond == pos >= horizon_end(bitmap)
        late == beyond /\ ~IsNone(deadline) /\ pos >= deadline[1]
    IN  IF st.remaining <= 0
        THEN IF st.spans = <<>> THEN Raised(bitmap, "IndexError", <<>>)
             ELSE Returned(bitmap,
                      AllocationRecord(operation_id, bitmap.resource_id, st.spans[1][1],
                          st.spans[Len(st.spans)][2], work_units, TRUE, st.spans))
        ELSE IF horizon_end(bitmap) > MaxHorizonEnd THEN Raised(bitmap, "cutoff", <<>>)
        ELSE IF late
        THEN Raised(bitmap, "InfeasibleError",
                 <<InfeasibleError(operation_id, st.remaining, work_units, "deadline")>>)
        ELSE walk_splittable_pass(
                 IF beyond THEN extend_to(bitmap, pos + DEFAULT_EXTEND_DAYS * UNITS_PER_DAY)
                 ELSE bitmap,
                 operation_id, pos, work_units, min_split, deadline, st)

\* a splittable walk that begins its scan one unit after the start position
walk_splittable_late(bitmap, operation_id, earliest_start, work_units, min_split, deadline) ==
    walk_splittable_loop(bitmap, operation_id,
                         max2(earliest_start, bitmap.horizon_begin) + 1,
                         work_units, min_split, deadline,
                         [remaining |-> work_units, spans |-> <<>>])

\* _walk_splittable
walk_splittable(bitmap, operation_id, earliest_start, work_units, min_split, deadline) ==
    walk_splittable_loop(bitmap, operation_id,
                         max2(earliest_start, bitmap.horizon_begin),
                         work_units, min_split, deadline,
                         [remaining |-> work_units, spans |-> <<>>])

\* a walk that does not look at its deadline
walk_ignoring_deadline(bitmap, operation_id, earliest_start, work_units, allow_split, min_split, deadline) ==
    IF allow_split
    THEN walk_splittable(bitmap, operation_id, earliest_start, work_units, min_split,
                         NoneVal)
    ELSE walk_non_splittable(bitmap, operation_id, earliest_start, work_units, NoneVal)

\* walk
walk(bitmap, operation_id, earliest_start, work_units, allow_split, min_split, deadline) ==
    IF allow_split
    THEN walk_splittable(bitmap, operation_id, earliest_start, work_units, min_split,
                         deadline)
    ELSE walk_non_splittable(bitmap, operation_id, earliest_start, work_units, deadline)

\* ------------------------------------------------------------ commit, release

\* _mark_spans leaving the last unit of every span untouched
MarkSpanShort(bits, horizon_begin, span, value) ==
    LET offset == span[1] - horizon_begin
        targets == range(offset, offset + (span[2] - span[1]) - 1)
    IN  [bits |-> [len |-> bits.len,
                   ones |-> IF value = 1 THEN bits.ones \cup targets
                            ELSE bits.ones \ targets],
         raised |-> FALSE]

\* one span of _mark_spans: bitmap.bits[i] = value for i in range(offset,
\* offset + (end - begin)), in order.  A bytearray index i with
\* -len <= i < 0 addresses len + i; any other index outside 0 .. len-1
\* raises IndexError, the assignments made before it staying in place.
MarkSpan(bits, horizon_begin, span, value) ==
    LET offset == span[1] - horizon_begin
        idx == range(offset, offset + (span[2] - span[1]))
        bad == {i \in idx : i >= bits.len \/ i < 0 - bits.len}
        done == IF bad = {} THEN idx ELSE {i \in idx : i < Min(bad)}
        targets == {IF i < 0 THEN bits.len + i ELSE i : i \in done}
    IN  [bits |-> [len |-> bits.len,
                   ones |-> IF value = 1 THEN bits.ones \cup targets
                            ELSE bits.ones \ targets],
         raised |-> bad # {}]

\* _mark_spans: the spans in order, up to the first IndexError
RECURSIVE mark_spans(_, _, _, _)
mark_spans(bits, horizon_begin, spans, value) ==
    IF spans = <<>> THEN [bits |-> bits, raised |-> FALSE]
    ELSE LET m == MarkSpan(bits, horizon_begin, spans[1], value)
         IN  IF m.raised THEN m
             ELSE mark_spans(m.bits, horizon_begin, Tail(spans), value)

\* allocate, after the walk: w is how the walk ended
allocate_commit(w) ==
    LET record == w.record[1]
        m == mark_spans(w.bitmap.bits, w.bitmap.horizon_begin, record.spans, 0)
    IN  IF w.kind # "record" THEN w
        ELSE IF m.raised
        THEN Raised([w.bitmap EXCEPT !.bits = m.bits], "IndexError", <<>>)
        ELSE Returned([w.bitmap EXCEPT !.bits = m.bits,
                                       !.allocations = Append(@, record)],
                      record)

\* allocate
allocate(bitmap, operation_id, earliest_start, work_units, allow_split, min_split, deadline) ==
    allocate_commit(walk(bitmap, operation_id, earliest_start, work_units, allow_split,
                         min_split, deadline))

\* whether some span of the record intersects [start_offset, end_offset)
Conflicts(record, start_offset, end_offset) ==
    \E k \in 1..Len(record.spans) :
        record.spans[k][1] < end_offset /\ start_offset < record.spans[k][2]

\* an apply_dynamic_exception that writes the whole range, the offsets not
\* clipped to the bits
apply_dynamic_exception_unclipped(bitmap, start_offset, end_offset, is_working) ==
    LET touched == range(start_offset - bitmap.horizon_begin,
                         end_offset - bitmap.horizon_begin)
        conflicts == SelectSeq(bitmap.allocations,
                         LAMBDA record : Conflicts(record, start_offset, end_offset))
    IN  IF is_working
        THEN [bitmap |-> [bitmap EXCEPT !.bits.ones = @ \cup touched],
              conflicts |-> <<>>]
        ELSE [bitmap |-> [bitmap EXCEPT !.bits.ones = @ \ touched],
              conflicts |-> conflicts]

\* apply_dynamic_exception: the bitmap it leaves and the list it returns
apply_dynamic_exception(bitmap, start_offset, end_offset, is_working) ==
    LET offset_begin == start_offset - bitmap.horizon_begin
        offset_end == end_offset - bitmap.horizon_begin
        touched == range(max2(0, offset_begin), min2(bitmap.bits.len, offset_end))
        conflicts == SelectSeq(bitmap.allocations,
                         LAMBDA record : Conflicts(record, start_offset, end_offset))
    IN  IF is_working
        THEN [bitmap |-> [bitmap EXCEPT !.bits.ones = @ \cup touched],
              conflicts |-> <<>>]
        ELSE [bitmap |-> [bitmap EXCEPT !.bits.ones = @ \ touched],
              conflicts |-> conflicts]

\* the list without the elements at the positions in at
RECURSIVE WithoutPositions(_, _, _)
WithoutPositions(list, at, k) ==
    IF k > Len(list) THEN <<>>
    ELSE (IF k \in at THEN <<>> ELSE <<list[k]>>) \o WithoutPositions(list, at, k + 1)

\* a deallocate that frees the first span of the record only
deallocate_first_span(bitmap, record, at) ==
    LET m == mark_spans(bitmap.bits, bitmap.horizon_begin, <<record.spans[1]>>, 1)
    IN  [bitmap |-> [bitmap EXCEPT !.bits = m.bits,
                                   !.allocations = WithoutPositions(@, at, 1)],
         raised |-> ""]

\* deallocate: at is the set of positions of allocations that hold the very
\* object passed as record (empty when the list holds no such object)
deallocate(bitmap, record, at) ==
    LET m == mark_spans(bitmap.bits, bitmap.horizon_begin, record.spans, 1)
    IN  IF m.raised
        THEN [bitmap |-> [bitmap EXCEPT !.bits = m.bits], raised |-> "IndexError"]
        ELSE [bitmap |-> [bitmap EXCEPT !.bits = m.bits,
                                        !.allocations = WithoutPositions(@, at, 1)],
              raised |-> ""]

\* ------------------------------------------------------------ the state machine

\* Calendars of the runs.  CalShift: Monday to Friday, 00:01-00:03 and
\* 00:04-00:07 (given out of order).  CalNight: Monday to Thursday,
\* 22:00-02:00 overnight; the first Tuesday is cleared by an exception that
\* adds 03:00-05:00.
CalShift ==
    WorkingCalendar("shift",
        [day \in 0..4 |-> <<<<0 * 60 + 4, 0 * 60 + 7>>, <<0 * 60 + 1, 0 * 60 + 3>>>>],
        <<>>)

CalNight ==
    WorkingCalendar("night",
        [day \in 0..3 |-> <<<<22 * 60, 2 * 60>>>>],
        [d \in {1} |-> <<[is_working |-> FALSE],
                         [is_working |-> TRUE, start |-> 3 * 60, end |-> 5 * 60]>>])

\* the arguments of from_calendar: the horizon ends inside the working period
\* 00:04-00:07 of the first Monday
Setups ==
    {[cal |-> CalShift, resolution |-> MINUTE, epoch |-> 0 * 60,
      horizon_start |-> 0 * 60, horizon_stop |-> 5 * 60]}

\* bounds of the inputs
MaxAllocs == 2

MaxWork == 2

MaxMinSplit == 2

OperationIds == {"OP-1"}

\* earliest_start and deadline are drawn relative to horizon_begin: the
\* start of the window and its end; a deadline inside the window and one
\* past its end
StartOffsets == {0, 5}

DeadlineOffsets == {3, 6}

\* the ranges of the dynamic exceptions, relative to horizon_begin
ExceptionRanges == {<<1, 6>>}

\* the bounds begin and end of the ranges the properties of
\* apply_dynamic_exception range over: before, inside and past the horizon
RangeBounds(bm) ==
    {bm.horizon_begin + k : k \in {0 - 2, 0, 2, 3, 5, 7}}
        \cup {horizon_end(bm) - 1, horizon_end(bm) + 2}

\* the ranges (begin, end), an end before the begin included, of at most
\* nine units
DynRanges(bm) ==
    {rg \in RangeBounds(bm) \X RangeBounds(bm) : rg[2] - rg[1] <= 9}

WalkArgs(bm) ==
    [operation_id : OperationIds,
     earliest_start : {bm.horizon_begin + k : k \in StartOffsets},
     work_units : 1..MaxWork,
     allow_split : BOOLEAN,
     min_split : 1..MaxMinSplit,
     deadline : {NoneVal} \cup {Some(bm.horizon_begin + k) : k \in DeadlineOffsets}]

\* the calls the properties range over (min_split is read by the splittable
\* walk only)
WalkInputs(bm) == {a \in WalkArgs(bm) : a.allow_split \/ a.min_split = 1}

\* the calls the state machine follows: walks without deadline and with
\* min_split 1, committed from the start of the window
CallInputs(bm) ==
    {a \in WalkInputs(bm) : IsNone(a.deadline) /\ a.min_split = 1 /\ a.work_units \in {1, 2}}

CommitInputs(bm) == {a \in CallInputs(bm) : a.earliest_start = bm.horizon_begin}

walkA(bm, a) ==
    walk(bm, a.operation_id, a.earliest_start, a.work_units, a.allow_split,
         a.min_split, a.deadline)

allocateA(bm, a) ==
    allocate(bm, a.operation_id, a.earliest_start, a.work_units, a.allow_split,
             a.min_split, a.deadline)

VARIABLES
    bitmap,     \* the OccupancyBitmap
    snap,       \* the snapshot the caller holds: <<>> or <<checkpoint()>>
    built,      \* the bitmap as from_calendar returned it
    budget,     \* the calls the caller may still make: <<n>>, or <<>> for no limit
    twin,       \* the bitmap copy() returned and what it shares: <<>> or <<c>>
    now         \* the datetime the caller of the calendar holds

vars == <<bitmap, snap, built, budget, twin, now>>

\* the number of calls of a run that has a limit
MaxCalls == 4

Built ==
    \E su \in Setups :
        /\ bitmap = from_calendar(su.cal, su.horizon_start, su.horizon_stop,
                                  su.epoch, su.resolution)
        /\ built = bitmap
        /\ snap = <<>>
        /\ twin = <<>>
        /\ now = su.epoch

Init == Built /\ budget = Some(MaxCalls)

InitNoLimit == Built /\ budget = NoneVal

\* one call is made
Spend ==
    IF IsNone(budget) THEN UNCHANGED budget
    ELSE budget[1] > 0 /\ budget' = Some(budget[1] - 1)

Walk ==
    \E a \in CallInputs(bitmap) :
        \E r \in {walkA(bitmap, a)} :
            /\ r.kind # "cutoff"
            /\ bitmap' = r.bitmap
            /\ Spend
            /\ UNCHANGED <<snap, built, twin, now>>

Allocate ==
    /\ Len(bitmap.allocations) < MaxAllocs
    /\ \E a \in CommitInputs(bitmap) :
           \E r \in {allocateA(bitmap, a)} :
               /\ r.kind # "cutoff"
               /\ bitmap' = r.bitmap
               /\ Spend
               /\ UNCHANGED <<snap, built, twin, now>>

\* deallocate of a record object that is in the allocations list
Deallocate ==
    \E k \in 1..Len(bitmap.allocations) :
        LET r == deallocate(bitmap, bitmap.allocations[k], {k})
        IN  /\ bitmap' = r.bitmap
            /\ Spend
            /\ UNCHANGED <<snap, built, twin, now>>

DynamicException ==
    \E rg \in ExceptionRanges, is_working \in BOOLEAN :
        LET r == apply_dynamic_exception(bitmap, bitmap.horizon_begin + rg[1],
                                         bitmap.horizon_begin + rg[2], is_working)
        IN  /\ bitmap' = r.bitmap
            /\ Spend
            /\ UNCHANGED <<snap, built, twin, now>>

\* the caller keeps one snapshot
Checkpoint ==
    /\ snap = <<>>
    /\ snap' = <<checkpoint(bitmap)>>
    /\ Spend
    /\ UNCHANGED <<bitmap, built, twin, now>>

Restore ==
    /\ snap # <<>>
    /\ bitmap' = restore(bitmap, snap[1])
    /\ Spend
    /\ UNCHANGED <<snap, built, twin, now>>

Next ==
    \/ Walk
    \/ Allocate
    \/ Deallocate
    \/ DynamicException
    \/ Checkpoint
    \/ Restore

\* runs of at most MaxCalls calls
Spec == Init /\ [][Next]_vars

\* walk, allocate and deallocate only (no dynamic exception, no restore),
\* in runs of any length
NextNoDyn ==
    \/ Walk
    \/ Allocate
    \/ Deallocate

SpecNoDyn == InitNoLimit /\ [][NextNoDyn]_vars

\* ------------------------------------------------------------ two bitmaps

\* the two bitmaps the caller holds after copy()
Sides == {"original", "copy"}

BitmapOf(side) == IF side = "original" THEN bitmap ELSE twin[1].bitmap

\* the bitmap that was not called, after a call changed the other one into
\* after: a bytearray that both hold is changed in place by every call
\* (bits[i] = v, bits.extend, bits[:] = data); a list that both hold shows
\* the append of allocate, while deallocate and restore give the called
\* bitmap a new list (rebinds) and leave the old one to the other
Seen(other, shared, after, rebinds) ==
    [other EXCEPT !.bits = IF "bits" \in shared THEN after.bits ELSE @,
                  !.allocations = IF "allocations" \in shared /\ ~rebinds
                                  THEN after.allocations ELSE @]

\* a call on the bitmap of side has changed it into after
Called(side, after, rebinds) ==
    LET shared == twin[1].shared
        left == IF rebinds THEN shared \ {"allocations"} ELSE shared
    IN  IF side = "original"
        THEN /\ bitmap' = after
             /\ twin' = <<[bitmap |-> Seen(twin[1].bitmap, shared, after, rebinds),
                           shared |-> left]>>
        ELSE /\ twin' = <<[bitmap |-> after, shared |-> left]>>
             /\ bitmap' = Seen(bitmap, shared, after, rebinds)

\* c = bitmap.copy()
Copy ==
    /\ twin = <<>>
    /\ twin' = <<copy(bitmap)>>
    /\ Spend
    /\ UNCHANGED <<bitmap, snap, built, now>>

\* walk on one of the two bitmaps (its auto-extension is what it changes)
WalkEither ==
    /\ twin # <<>>
    /\ \E side \in Sides :
           \E a \in CallInputs(BitmapOf(side)) :
               \E r \in {walkA(BitmapOf(side), a)} :
                   /\ r.kind # "cutoff"
                   /\ Called(side, r.bitmap, FALSE)
    /\ Spend
    /\ UNCHANGED <<snap, built, now>>

AllocateEither ==
    /\ twin # <<>>
    /\ \E side \in Sides :
           /\ Len(BitmapOf(side).allocations) < MaxAllocs
           /\ \E a \in CommitInputs(BitmapOf(side)) :
                  \E r \in {allocateA(BitmapOf(side), a)} :
                      /\ r.kind # "cutoff"
                      /\ Called(side, r.bitmap, FALSE)
    /\ Spend
    /\ UNCHANGED <<snap, built, now>>

\* deallocate of a record object of the list of the called bitmap (the
\* records allocated before the copy are in both lists)
DeallocateEither ==
    /\ twin # <<>>
    /\ \E side \in Sides :
           \E k \in 1..Len(BitmapOf(side).allocations) :
               \E r \in {deallocate(BitmapOf(side), BitmapOf(side).allocations[k], {k})} :
                   Called(side, r.bitmap, r.raised = "")
    /\ Spend
    /\ UNCHANGED <<snap, built, now>>

DynamicExceptionEither ==
    /\ twin # <<>>
    /\ \E side \in Sides, rg \in ExceptionRanges, is_working \in BOOLEAN :
           \E r \in {apply_dynamic_exception(BitmapOf(side),
                          BitmapOf(side).horizon_begin + rg[1],
                          BitmapOf(side).horizon_begin + rg[2], is_working)} :
               Called(side, r.bitmap, FALSE)
    /\ Spend
    /\ UNCHANGED <<snap, built, now>>

\* restore of the snapshot of the original, on either bitmap
RestoreEither ==
    /\ twin # <<>>
    /\ snap # <<>>
    /\ \E side \in Sides :
           Called(side, restore(BitmapOf(side), snap[1]), TRUE)
    /\ Spend
    /\ UNCHANGED <<snap, built, now>>

\* before the copy the caller allocates on the bitmap and may keep a
\* snapshot of it
NextCopy ==
    \/ twin = <<>> /\ Allocate
    \/ Checkpoint
    \/ Copy
    \/ RestoreEither
    \/ AllocateEither
    \/ DeallocateEither
    \/ DynamicExceptionEither
    \/ WalkEither

\* runs of at most MaxCalls calls, one of them copy()
SpecCopy == Init /\ [][NextCopy]_vars

\* CalTail: Monday 22:00-06:00 overnight and Tuesday 01:00-03:00, so that
\* the tail Monday carries into Tuesday covers Tuesday's own period
CalTail ==
    WorkingCalendar("tail",
        [day \in 0..1 |-> IF day = 0 THEN <<<<22 * 60, 6 * 60>>>>
                          ELSE <<<<1 * 60, 3 * 60>>>>],
        <<>>)

\* CalPatch: Monday 22:00-02:00 overnight, Tuesday 08:00-10:00 and
\* 23:00-01:00 overnight, Wednesday 08:00-10:00.  The first Tuesday has
\* exception entries that clear nothing: a working 06:00-07:00, a
\* non-working entry with a time range and an entry without is_working.
\* The first Wednesday is cleared, with two working entries given out of
\* order.
CalPatch ==
    WorkingCalendar("patch",
        [day \in 0..2 |-> IF day = 0 THEN <<<<22 * 60, 2 * 60>>>>
                          ELSE IF day = 1 THEN <<<<8 * 60, 10 * 60>>, <<23 * 60, 1 * 60>>>>
                          ELSE <<<<8 * 60, 10 * 60>>>>],
        [d \in {1, 2} |->
            IF d = 1
            THEN <<[is_working |-> TRUE, start |-> 6 * 60, end |-> 7 * 60],
                   [is_working |-> FALSE, start |-> 8 * 60, end |-> 9 * 60],
                   [start |-> 12 * 60, end |-> 13 * 60]>>
            ELSE <<[is_working |-> TRUE, start |-> 14 * 60, end |-> 15 * 60],
                   [is_working |-> FALSE],
                   [is_working |-> TRUE, start |-> 9 * 60, end |-> 10 * 60]>>])

\* the calendars, resolutions and horizons of the runs of the calendar
\* arithmetic: the second horizon begins inside the first working period
CalSetups ==
    Setups \cup
    {[cal |-> CalShift, resolution |-> MINUTE, epoch |-> 0 * 60,
      horizon_start |-> 2 * 60, horizon_stop |-> 5 * 60],
     [cal |-> CalNight, resolution |-> HOUR, epoch |-> 0 * 60,
      horizon_start |-> 0 * 60, horizon_stop |-> Combine(1, Midnight)],
     [cal |-> CalTail, resolution |-> HOUR, epoch |-> 0 * 60,
      horizon_start |-> 0 * 60, horizon_stop |-> Combine(1, Midnight)],
     [cal |-> CalPatch, resolution |-> HOUR, epoch |-> 0 * 60,
      horizon_start |-> 0 * 60, horizon_stop |-> Combine(1, Midnight)]}

\* the datetimes the caller starts from: Monday 00:00 and Monday 00:01
StartClocks == {Combine(0, Midnight), Combine(0, 1)}

\* the caller's datetimes stay within the dates -(MaxDate + 1) .. MaxDate
MaxDate == 2

ClockDates == (0 - (MaxDate + 1)) .. MaxDate

\* the durations of the calendar calls: whole units of the resolution, in
\* minutes
Durations(bm) == {k * (bm.resolution.unit_seconds \div 60) : k \in 0..MaxWork}

InitCal ==
    /\ \E su \in CalSetups :
           /\ bitmap = from_calendar(su.cal, su.horizon_start, su.horizon_stop,
                                     su.epoch, su.resolution)
           /\ built = bitmap
    /\ snap = <<>>
    /\ twin = <<>>
    /\ budget = NoneVal
    /\ now \in StartClocks

\* now = cal.add_minutes(now, n)
AddMinutes ==
    /\ bitmap = built
    /\ \E n \in Durations(bitmap) :
           \E r \in {add_minutes(bitmap.calendar, now, n)} :
               /\ DateOf(r) \in ClockDates
               /\ now' = r
    /\ UNCHANGED <<bitmap, snap, built, budget, twin>>

\* now = cal.subtract_minutes(now, n)
SubtractMinutes ==
    /\ bitmap = built
    /\ \E n \in Durations(bitmap) :
           \E r \in {subtract_minutes(bitmap.calendar, now, n)} :
               /\ DateOf(r) \in ClockDates
               /\ now' = r
    /\ UNCHANGED <<bitmap, snap, built, budget, twin>>

\* allocate(bitmap, op, resolution.to_int(now, epoch), n, allow_split=True)
\* on the fresh bitmap, for a now that aligns to the resolution
AllocateAtNow ==
    /\ bitmap = built
    /\ to_int(bitmap.resolution, now, bitmap.epoch).raised = ""
    /\ \E op \in OperationIds, n \in 1..MaxWork :
           \E r \in {allocate(bitmap, op,
                               to_int(bitmap.resolution, now, bitmap.epoch).value,
                               n, TRUE, 1, NoneVal)} :
               /\ r.kind = "record"
               /\ bitmap' = r.bitmap
    /\ UNCHANGED <<snap, built, budget, twin, now>>

NextCal ==
    \/ AddMinutes
    \/ SubtractMinutes
    \/ AllocateAtNow

\* the calendar arithmetic and the splittable allocate on the fresh bitmap
SpecCal == InitCal /\ [][NextCal]_vars

\* ------------------------------------------------------------ properties

\* the time units of a span and of a record
SpanUnits(span) == range(span[1], span[2])

RecordUnits(record) == UNION {SpanUnits(record.spans[k]) : k \in 1..Len(record.spans)}

\* whether the calendar makes the unit t of the bitmap's integer time working
IsWorkingUnit(bm, t) ==
    LET dt == to_datetime(bm.resolution, t, bm.epoch)
        ivs == datetime_intervals_for_date(bm.calendar, DateOf(dt))
    IN  \E k \in 1..Len(ivs) : ivs[k][1] <= dt /\ dt < ivs[k][2]

\* whether the unit t is free: inside the horizon by its bit, beyond the
\* horizon by the calendar
IsFreeUnit(bm, t) ==
    IF t < horizon_end(bm) THEN BitAt(bm.bits, t - bm.horizon_begin) = 1
    ELSE IsWorkingUnit(bm, t)

\* whether no unit belongs to the spans of two records of the list
PairwiseDisjoint(allocations) ==
    \A i \in 1..Len(allocations), j \in 1..Len(allocations) :
        i # j => RecordUnits(allocations[i]) \cap RecordUnits(allocations[j]) = {}

\* C1: after any sequence of successful allocate calls (deallocate calls
\* between them; the last allocate with any earliest_start, min_split and
\* deadline), no time unit belongs to the spans of two different records of
\* allocations
NoDoubleBooking ==
    /\ PairwiseDisjoint(bitmap.allocations)
    /\ \A a \in WalkInputs(bitmap) :
           LET r == allocateA(bitmap, a)
           IN  r.kind = "record" => PairwiseDisjoint(r.bitmap.allocations)

\* two committed records, one of them split over several spans
NoDoubleBookingWitness ==
    /\ Len(bitmap.allocations) >= 2
    /\ \E i \in 1..Len(bitmap.allocations) : Len(bitmap.allocations[i].spans) >= 2

\* the non-splittable calls without deadline
NonSplitNoDeadline(bm) == {a \in WalkInputs(bm) : ~a.allow_split /\ IsNone(a.deadline)}

\* whether the work_units units from s on are all free
IsFreeWindow(bm, s, work_units) ==
    \A t \in range(s, s + work_units) : IsFreeUnit(bm, t)

\* C2: a non-splittable call without deadline returns the span
\* (s, s + work_units) with s the smallest integer >= max(earliest_start,
\* horizon_begin) whose work_units units are all free, units beyond the
\* horizon counting as free when the calendar makes them working
EarliestFit ==
    \A a \in NonSplitNoDeadline(bitmap) :
        LET r == walkA(bitmap, a)
            pos == max2(a.earliest_start, bitmap.horizon_begin)
        IN  r.kind = "record" =>
                /\ r.record[1].spans = <<<<r.record[1].start, r.record[1].start + a.work_units>>>>
                /\ r.record[1].start >= pos
                /\ IsFreeWindow(bitmap, r.record[1].start, a.work_units)
                /\ \A s \in range(pos, r.record[1].start) :
                       ~IsFreeWindow(bitmap, s, a.work_units)

\* the units covered by the spans of the committed records
Covered(bm) == UNION {RecordUnits(bm.allocations[k]) : k \in 1..Len(bm.allocations)}

\* the dates the horizon of the bitmap touches
HorizonDates(bm) ==
    DateOf(to_datetime(bm.resolution, bm.horizon_begin, bm.epoch)) ..
        DateOf(to_datetime(bm.resolution, horizon_end(bm), bm.epoch))

\* the units of the working intervals of one date
DateUnits(bm, d) ==
    LET ivs == datetime_intervals_for_date(bm.calendar, d)
    IN  UNION {range(to_int(bm.resolution, ivs[k][1], bm.epoch).value,
                     to_int(bm.resolution, ivs[k][2], bm.epoch).value) : k \in 1..Len(ivs)}

\* C4: I1, without dynamic exceptions: for every unit u of the horizon,
\* bits[u - horizon_begin] = 1 exactly when the calendar makes u working and
\* no span of a committed record contains u
BitsAreCalendarMinusCommitted ==
    /\ \A i \in bitmap.bits.ones :
           /\ i \in range(0, bitmap.bits.len)
           /\ IsWorkingUnit(bitmap, i + bitmap.horizon_begin)
           /\ i + bitmap.horizon_begin \notin Covered(bitmap)
    /\ \A d \in HorizonDates(bitmap) :
           \A u \in DateUnits(bitmap, d) :
               (u >= bitmap.horizon_begin /\ u < horizon_end(bitmap) /\ u \notin Covered(bitmap))
                   => BitAt(bitmap.bits, u - bitmap.horizon_begin) = 1

\* an extended bitmap that holds a record after another was released
BitsAreCalendarMinusCommittedWitness ==
    /\ bitmap.bits.len > built.bits.len
    /\ Len(bitmap.allocations) = 1
    /\ bitmap.allocations[1].start > bitmap.horizon_begin + 1

\* the indices lo .. hi-1 the calendar makes working, date by date
WorkingIndices(bm, lo, hi) ==
    LET first_date == DateOf(to_datetime(bm.resolution, bm.horizon_begin + lo, bm.epoch))
        last_date == DateOf(to_datetime(bm.resolution, bm.horizon_begin + hi, bm.epoch))
    IN  {u - bm.horizon_begin :
            u \in {v \in UNION {DateUnits(bm, d) : d \in first_date..last_date} :
                      v >= bm.horizon_begin + lo /\ v < bm.horizon_begin + hi}}

\* the bits below index n
BitsBelow(bits, n) == {i \in bits.ones : i < n}

\* the bitmaps that deallocating every record of allocations, in any order,
\* can leave
RECURSIVE AfterReleasingAll(_)
AfterReleasingAll(bm) ==
    IF bm.allocations = <<>> THEN {bm}
    ELSE UNION {AfterReleasingAll(deallocate(bm, bm.allocations[k], {k}).bitmap) :
                k \in 1..Len(bm.allocations)}

\* C5: deallocate of the record a successful allocate has just returned
\* restores allocations and every bit below the horizon end of before the
\* allocate (every bit, when the allocate did not extend); releasing all
\* committed records, in any order, restores the bits of before the first
\* allocate and empties allocations
DeallocateUndoesAllocate ==
    /\ \A a \in WalkInputs(bitmap) :
           LET r == allocateA(bitmap, a)
               d == deallocate(r.bitmap, r.record[1], {Len(r.bitmap.allocations)})
           IN  r.kind = "record" =>
                   /\ d.raised = ""
                   /\ d.bitmap.allocations = bitmap.allocations
                   /\ d.bitmap.bits.len >= bitmap.bits.len
                   /\ BitsBelow(d.bitmap.bits, bitmap.bits.len) = bitmap.bits.ones
                   /\ r.bitmap.bits.len = bitmap.bits.len => d.bitmap = bitmap
    /\ \A b \in AfterReleasingAll(bitmap) :
           /\ b.allocations = <<>>
           /\ b.bits.len = bitmap.bits.len
           /\ BitsBelow(b.bits, built.bits.len) = built.bits.ones
           /\ b.bits.ones \ built.bits.ones =
                  WorkingIndices(bitmap, built.bits.len, bitmap.bits.len)

\* two records are committed, one of them split, and a further allocate
\* extends the bitmap
DeallocateUndoesAllocateWitness ==
    /\ Len(bitmap.allocations) = 2
    /\ \E k \in 1..2 : Len(bitmap.allocations[k].spans) >= 2
    /\ \E a \in WalkInputs(bitmap) :
           LET r == allocateA(bitmap, a)
           IN  r.kind = "record" /\ r.bitmap.bits.len > bitmap.bits.len

\* C7: walk leaves allocations, horizon_begin and every bit that existed
\* before the call as they were; it may append bits, which are those of the
\* calendar; when the placement it returns lies inside the horizon of before
\* the call the bits are the same sequence
WalkIsReadOnly ==
    \A a \in WalkInputs(bitmap) :
        LET r == walkA(bitmap, a)
        IN  r.kind # "cutoff" =>
                /\ r.bitmap.allocations = bitmap.allocations
                /\ r.bitmap.horizon_begin = bitmap.horizon_begin
                /\ r.bitmap.bits.len >= bitmap.bits.len
                /\ BitsBelow(r.bitmap.bits, bitmap.bits.len) = bitmap.bits.ones
                /\ r.bitmap.bits.ones \ bitmap.bits.ones =
                       WorkingIndices(bitmap, bitmap.bits.len, r.bitmap.bits.len)
                /\ [r.bitmap EXCEPT !.bits = bitmap.bits] = bitmap
                /\ (r.kind = "record" /\ r.record[1].finish <= horizon_end(bitmap))
                       => r.bitmap = bitmap

\* records are committed and some walk appends bits while another returns a
\* placement inside the horizon
WalkIsReadOnlyWitness ==
    /\ bitmap.allocations # <<>>
    /\ bitmap.bits.ones # {}
    /\ \E a \in WalkInputs(bitmap) : walkA(bitmap, a).bitmap.bits.len > bitmap.bits.len
    /\ \E a \in WalkInputs(bitmap) :
           LET r == walkA(bitmap, a)
           IN  r.kind = "record" /\ r.record[1].finish <= horizon_end(bitmap)

\* the sum of the lengths of the spans
RECURSIVE SpansTotal(_)
SpansTotal(spans) ==
    IF spans = <<>> THEN 0
    ELSE (spans[1][2] - spans[1][1]) + SpansTotal(Tail(spans))

\* R1, R2 and R3 of a record returned for the call a
RecordIsWellFormed(record, a) ==
    /\ a.work_units >= 1
    /\ record.work_units = a.work_units
    /\ record.allow_split = a.allow_split
    /\ record.spans # <<>>
    /\ \A k \in 1..Len(record.spans) :
           /\ record.spans[k][1] < record.spans[k][2]
           /\ record.start <= record.spans[k][1]
           /\ record.spans[k][2] <= record.finish
    /\ \A k \in 1..(Len(record.spans) - 1) : record.spans[k][2] <= record.spans[k + 1][1]
    /\ record.start = record.spans[1][1]
    /\ record.finish = record.spans[Len(record.spans)][2]
    /\ SpansTotal(record.spans) = record.work_units
    /\ ~record.allow_split =>
           /\ Len(record.spans) = 1
           /\ record.finish - record.start = record.work_units

\* C8: every record walk returns, and so every record allocate returns, has
\* non-empty spans sorted by start and pairwise disjoint, start the begin of
\* the first span, finish the end of the last, span lengths that sum to
\* work_units, and, when not splittable, one span of work_units units
ReturnedRecordsAreWellFormed ==
    \A a \in WalkInputs(bitmap) :
        LET w == walkA(bitmap, a)
            r == allocateA(bitmap, a)
        IN  /\ w.kind = "record" => RecordIsWellFormed(w.record[1], a)
            /\ w.kind = "record" => (r.kind = "record" /\ r.record = w.record)

\* with a record committed, a splittable walk returns several spans, one
\* with min_split skips a run, and a non-splittable walk returns one span
ReturnedRecordsAreWellFormedWitness ==
    /\ bitmap.allocations # <<>>
    /\ \E a \in WalkInputs(bitmap) :
           LET w == walkA(bitmap, a)
           IN  w.kind = "record" /\ Len(w.record[1].spans) >= 2
    /\ \E a \in WalkInputs(bitmap) :
           LET w == walkA(bitmap, a)
           IN  w.kind = "record" /\ a.min_split >= 2 /\ w.record[1].start > a.earliest_start + 1
    /\ \E a \in WalkInputs(bitmap) :
           LET w == walkA(bitmap, a)
           IN  w.kind = "record" /\ ~a.allow_split /\ a.work_units >= 2

\* whether a window of work_units free units starts at or after pos and
\* ends at or before deadline
FitsBefore(bm, pos, work_units, deadline) ==
    \E s \in pos..(deadline - work_units) : IsFreeWindow(bm, s, work_units)

\* C9: a non-splittable call with a deadline raises InfeasibleError only
\* when no s >= max(earliest_start, horizon_begin) has work_units free units
\* from s on with s + work_units <= deadline (units beyond the horizon free
\* by the calendar); where such an s exists the call returns a record
InfeasibleOnlyWithoutFit ==
    \A a \in {c \in WalkInputs(bitmap) : ~c.allow_split /\ ~IsNone(c.deadline)} :
        LET r == walkA(bitmap, a)
            fits == FitsBefore(bitmap, max2(a.earliest_start, bitmap.horizon_begin),
                               a.work_units, a.deadline[1])
        IN  /\ r.kind = "InfeasibleError" => ~fits
            /\ fits => r.kind = "record"

\* C10: a record returned for a call with a deadline has finish <= deadline,
\* splittable or not; and a placement that finishes exactly at the deadline
\* is accepted: the call that returns a record without deadline returns the
\* same record with the deadline set to its finish
FinishWithinDeadline ==
    \A a \in WalkInputs(bitmap) :
        LET r == walkA(bitmap, a)
            at_finish == walkA(bitmap, [a EXCEPT !.deadline = Some(r.record[1].finish)])
        IN  /\ (r.kind = "record" /\ ~IsNone(a.deadline))
                => r.record[1].finish <= a.deadline[1]
            /\ (r.kind = "record" /\ IsNone(a.deadline))
                => (at_finish.kind = "record" /\ at_finish.record = r.record)

\* C3: I2: in every reachable state every unit of every span of every
\* record of allocations has bit value 0
CommittedBitsAreZero ==
    \A k \in 1..Len(bitmap.allocations) :
        \A u \in RecordUnits(bitmap.allocations[k]) :
            /\ u - bitmap.horizon_begin \in range(0, bitmap.bits.len)
            /\ BitAt(bitmap.bits, u - bitmap.horizon_begin) = 0

\* C6: restore(snap) leaves the bits equal to the checkpointed bits (an
\* extended bitmap is cut back to the checkpointed length), allocations
\* equal to the checkpointed list, horizon_begin and the rest of the bitmap
\* as they were; restoring the same snapshot again gives the same bitmap
RestoreGivesCheckpointed ==
    snap # <<>> =>
        LET r == restore(bitmap, snap[1])
        IN  /\ r.bits = snap[1][1]
            /\ r.allocations = snap[1][2]
            /\ r.horizon_begin = built.horizon_begin
            /\ [r EXCEPT !.bits = bitmap.bits, !.allocations = bitmap.allocations] = bitmap
            /\ restore(r, snap[1]) = r
            /\ \A a \in CommitInputs(r) :
                   restore(allocateA(r, a).bitmap, snap[1]) = r

\* a snapshot with a committed record is held while the bitmap has been
\* extended, holds another list of records and has lost working bits to a
\* dynamic exception
RestoreGivesCheckpointedWitness ==
    /\ snap # <<>>
    /\ snap[1][2] # <<>>
    /\ bitmap.bits.len > snap[1][1].len
    /\ bitmap.allocations # snap[1][2]
    /\ BitsBelow(bitmap.bits, snap[1][1].len) # snap[1][1].ones
    /\ \E i \in range(0, snap[1][1].len) :
           /\ i \notin bitmap.bits.ones
           /\ IsWorkingUnit(bitmap, i + bitmap.horizon_begin)
           /\ i + bitmap.horizon_begin \notin Covered(bitmap)

\* the splittable calls with min_split 1 and without deadline
GreedyInputs(bm) ==
    {a \in WalkInputs(bm) : a.allow_split /\ a.min_split = 1 /\ IsNone(a.deadline)}

\* C11: a splittable walk with min_split 1 and no deadline returns spans
\* whose union is the set of the work_units smallest free units at or after
\* max(earliest_start, horizon_begin): work_units units, all free, and no
\* free unit before finish outside them (units beyond the horizon free by
\* the calendar)
SplittableTakesFirstFree ==
    \A a \in GreedyInputs(bitmap) :
        LET r == walkA(bitmap, a)
            pos == max2(a.earliest_start, bitmap.horizon_begin)
            taken == RecordUnits(r.record[1])
        IN  /\ r.kind = "record"
            /\ Cardinality(taken) = a.work_units
            /\ \A u \in taken : u >= pos /\ IsFreeUnit(bitmap, u)
            /\ \A t \in range(pos, r.record[1].finish) :
                   IsFreeUnit(bitmap, t) => t \in taken

\* with a record committed, a splittable walk steps over an occupied gap
\* and another takes units on both sides of the horizon end
SplittableTakesFirstFreeWitness ==
    /\ bitmap.allocations # <<>>
    /\ \E a \in GreedyInputs(bitmap) :
           LET r == walkA(bitmap, a)
           IN  /\ r.kind = "record"
               /\ r.record[1].start < horizon_end(bitmap)
               /\ r.record[1].finish > horizon_end(bitmap)
    /\ \E a \in GreedyInputs(bitmap) :
           LET r == walkA(bitmap, a)
           IN  /\ r.kind = "record"
               /\ \E t \in range(r.record[1].start, r.record[1].finish) :
                      t \notin RecordUnits(r.record[1])

\* the end of the stretch of free units that contains the free unit t
RECURSIVE FreeRunEnd(_, _)
FreeRunEnd(bm, t) == IF IsFreeUnit(bm, t) THEN FreeRunEnd(bm, t + 1) ELSE t

\* whether a free run, of the units at or after pos, starts at the unit s
IsFreeRunStart(bm, pos, s) ==
    IsFreeUnit(bm, s) /\ (s = pos \/ ~IsFreeUnit(bm, s - 1))

\* C12: every span a splittable walk with min_split m returns begins at the
\* start of a free run of length >= m (a maximal stretch of free units at or
\* after the start position) and, the last span excepted, covers that whole
\* run; the last span ends inside its run.  So no unit of a shorter run is
\* in a span and no run is consumed from its middle.
MinSplitTakesWholeRuns ==
    \A a \in {c \in WalkInputs(bitmap) : c.allow_split} :
        LET r == walkA(bitmap, a)
            pos == max2(a.earliest_start, bitmap.horizon_begin)
            spans == r.record[1].spans
        IN  r.kind = "record" =>
                \A k \in 1..Len(spans) :
                    /\ IsFreeRunStart(bitmap, pos, spans[k][1])
                    /\ FreeRunEnd(bitmap, spans[k][1]) - spans[k][1] >= a.min_split
                    /\ spans[k][2] <= FreeRunEnd(bitmap, spans[k][1])
                    /\ k < Len(spans) => spans[k][2] = FreeRunEnd(bitmap, spans[k][1])

\* whether dt lies in a working period [start, end) of the calendar
InWorkingTime(cal, dt) ==
    \E iv \in Elements(datetime_intervals_for_date(cal, DateOf(dt))) :
        iv[1] <= dt /\ dt < iv[2]

\* the finish of the record committed on the fresh bitmap, as a datetime,
\* equals cal.add_minutes(now, work_units in minutes)
FinishAgrees ==
    to_datetime(bitmap.resolution, bitmap.allocations[1].finish, bitmap.epoch)
        = add_minutes(bitmap.calendar, now,
              bitmap.allocations[1].work_units * (bitmap.resolution.unit_seconds \div 60))

\* C13 as stated: for any aligned start s and any n >= 1 the finish of
\* allocate(to_int(s), n, allow_split = true) on a fresh bitmap, as a
\* datetime, equals cal.add_minutes(s, n in minutes), at minute and at hour
\* resolution
CrossLayerAgreementAnyStart ==
    Len(bitmap.allocations) = 1 => FinishAgrees

\* C13 amended: the same, for a start s at or after the start of the
\* bitmap's horizon (to_int(s) >= horizon_begin)
CrossLayerAgreement ==
    (/\ Len(bitmap.allocations) = 1
     /\ to_int(bitmap.resolution, now, bitmap.epoch).value >= bitmap.horizon_begin)
        => FinishAgrees

\* at hour resolution, a record of several spans committed from a start
\* inside the horizon, the bitmap extended by the call
CrossLayerAgreementWitness ==
    /\ Len(bitmap.allocations) = 1
    /\ bitmap.resolution = HOUR
    /\ to_int(bitmap.resolution, now, bitmap.epoch).value > bitmap.horizon_begin
    /\ Len(bitmap.allocations[1].spans) >= 2
    /\ bitmap.bits.len > built.bits.len

\* C18: for every n >= 0 and every now in working time,
\* subtract_minutes(add_minutes(now, n), n) = now
RoundTripForwardBack ==
    InWorkingTime(bitmap.calendar, now) =>
        \A n \in Durations(bitmap) :
            subtract_minutes(bitmap.calendar,
                             add_minutes(bitmap.calendar, now, n), n) = now

\* C19: for every n >= 0 and every now in working time, the start of a
\* working period included, add_minutes(subtract_minutes(now, n), n) = now
RoundTripBackForward ==
    InWorkingTime(bitmap.calendar, now) =>
        \A n \in Durations(bitmap) :
            add_minutes(bitmap.calendar,
                        subtract_minutes(bitmap.calendar, now, n), n) = now

\* the records of the list that have a span with a unit in [begin, end),
\* in the order of the list
Intersecting(allocations, begin, end) ==
    SelectSeq(allocations, LAMBDA record : RecordUnits(record) \cap range(begin, end) # {})

\* C14: apply_dynamic_exception(bm, begin, end, is_working = false), for
\* any begin <= end, returns exactly the records of allocations that have a
\* span intersecting [begin, end), each once and in allocation order, and
\* removes no record from allocations
ConflictReportIsExact ==
    \A rg \in DynRanges(bitmap) :
        rg[1] <= rg[2] =>
            LET r == apply_dynamic_exception(bitmap, rg[1], rg[2], FALSE)
            IN  /\ r.conflicts = Intersecting(bitmap.allocations, rg[1], rg[2])
                /\ r.bitmap.allocations = bitmap.allocations

\* the indices of bits that stand for the units of [begin, end)
IndicesOfRange(bm, begin, end) ==
    {u - bm.horizon_begin : u \in {v \in range(begin, end) :
                                      v >= bm.horizon_begin /\ v < horizon_end(bm)}}

\* C15: apply_dynamic_exception sets every bit of [begin, end) inside the
\* horizon to 1 when is_working (returning the empty list) and to 0 when
\* not, whatever its value was, and leaves every other bit, the length of
\* bits, horizon_begin, allocations and the calendar as they were
DynamicExceptionEffectAndFrame ==
    \A rg \in DynRanges(bitmap), is_working \in BOOLEAN :
        LET r == apply_dynamic_exception(bitmap, rg[1], rg[2], is_working)
            inside == IndicesOfRange(bitmap, rg[1], rg[2])
        IN  /\ r.bitmap.bits.len = bitmap.bits.len
            /\ r.bitmap.bits.ones =
                   (IF is_working THEN bitmap.bits.ones \cup inside
                    ELSE bitmap.bits.ones \ inside)
            /\ [r.bitmap EXCEPT !.bits = bitmap.bits] = bitmap
            /\ is_working => r.conflicts = <<>>

\* a record is committed and a dynamic exception has made a unit free that
\* the calendar does not make working; a range that starts before the
\* horizon clears a free bit, one that ends past it sets an occupied bit
DynamicExceptionEffectAndFrameWitness ==
    /\ bitmap.allocations # <<>>
    /\ \E i \in bitmap.bits.ones : ~IsWorkingUnit(bitmap, i + bitmap.horizon_begin)
    /\ \E rg \in DynRanges(bitmap) :
           /\ rg[1] < bitmap.horizon_begin
           /\ apply_dynamic_exception(bitmap, rg[1], rg[2], FALSE).bitmap.bits # bitmap.bits
    /\ \E rg \in DynRanges(bitmap) :
           /\ rg[2] > horizon_end(bitmap)
           /\ apply_dynamic_exception(bitmap, rg[1], rg[2], TRUE).bitmap.bits # bitmap.bits

\* the indices of bits that stand for units of the spans of the record
IndicesOfRecord(bm, record) ==
    {u - bm.horizon_begin : u \in {v \in RecordUnits(record) :
                                      v >= bm.horizon_begin /\ v < horizon_end(bm)}}

\* whether deallocate(bm, record) completes and changes no bit but those of
\* the units of the record inside the horizon
ReleaseIsClipped(bm, record, at) ==
    LET d == deallocate(bm, record, at)
    IN  /\ d.raised = ""
        /\ d.bitmap.bits.len = bm.bits.len
        /\ d.bitmap.bits.ones = bm.bits.ones \cup IndicesOfRecord(bm, record)

\* C16: deallocate and apply_dynamic_exception never fail: for any range,
\* and for any record the caller holds (one of allocations, or one that a
\* restore has taken out of the bitmap, its spans past the restored
\* horizon), the call completes and changes bits inside the horizon only,
\* at the positions of the range or of the spans
ReleaseAndExceptionNeverFail ==
    /\ \A rg \in DynRanges(bitmap), is_working \in BOOLEAN :
           LET r == apply_dynamic_exception(bitmap, rg[1], rg[2], is_working)
           IN  /\ r.bitmap.bits.len = bitmap.bits.len
               /\ r.bitmap.bits.ones \subseteq range(0, bitmap.bits.len)
    /\ \A k \in 1..Len(bitmap.allocations) :
           /\ ReleaseIsClipped(bitmap, bitmap.allocations[k], {k})
           /\ snap # <<>> =>
                  ReleaseIsClipped(restore(bitmap, snap[1]), bitmap.allocations[k], {})

\* the work_units of the walks that are compared with one another
MaxWalkWork == 4

\* the earliest_start of the compared walks: the start of the window and
\* the units one to three before its end
MonotoneStarts(bm) ==
    {bm.horizon_begin} \cup {horizon_end(bm) - k : k \in 1..3}

\* C20: walk monotonicity: from one bitmap state and one earliest_start,
\* w1 <= w2 implies that the walk of w1 units finishes no later than the
\* walk of w2 units, non-splittable and splittable walks alike
WalkIsMonotone ==
    \A op \in OperationIds, es \in MonotoneStarts(bitmap), allow_split \in BOOLEAN :
        \A w1 \in 1..MaxWalkWork, w2 \in 1..MaxWalkWork :
            w1 <= w2 =>
                LET r1 == walk(bitmap, op, es, w1, allow_split, 1, NoneVal)
                    r2 == walk(bitmap, op, es, w2, allow_split, 1, NoneVal)
                IN  (r1.kind = "record" /\ r2.kind = "record") =>
                        r1.record[1].finish <= r2.record[1].finish

\* bits, horizon_begin and the allocations list of a bitmap
Content(bm) == <<bm.bits, bm.horizon_begin, bm.allocations>>

\* C17: copy() gives an independent bitmap: the copy starts with bits,
\* horizon_begin and allocations equal to those of the original, which the
\* call leaves as they were, and every later call (allocate, deallocate,
\* dynamic exception, walk with auto-extension, restore) on one of the two
\* bitmaps leaves the bits and the allocations list of the other unchanged
CopyIsIndependent ==
    [][/\ (twin = <<>> /\ twin' # <<>>) =>
              /\ Content(twin'[1].bitmap) = Content(bitmap)
              /\ bitmap' = bitmap
       /\ (twin # <<>> /\ twin' # <<>>) =>
              \/ Content(bitmap') = Content(bitmap)
              \/ Content(twin'[1].bitmap) = Content(twin[1].bitmap)]_vars

\* the two bitmaps have gone apart: each holds a record of its own, one has
\* been extended and the other has not
CopyIsIndependentWitness ==
    /\ twin # <<>>
    /\ bitmap.allocations # <<>>
    /\ twin[1].bitmap.allocations # <<>>
    /\ bitmap.allocations # twin[1].bitmap.allocations
    /\ bitmap.bits.len # twin[1].bitmap.bits.len

\* the datetimes of the calendar properties are whole multiples of
\* HalfMinute seconds; tick k is the half minute that begins at k * HalfMinute
HalfMinute == 30

\* the ticks of [a, b) that lie in a resolved working interval of a date
WorkingTicks(cal, a, b) ==
    UNION {UNION {range(max2(iv[1], a) \div HalfMinute, min2(iv[2], b) \div HalfMinute)
                    : iv \in Elements(datetime_intervals_for_date(cal, d))}
             : d \in DateOf(a)..DateOf(b)}

\* the working time of [a, b), in seconds
WorkingSeconds(cal, a, b) == Cardinality(WorkingTicks(cal, a, b)) * HalfMinute

\* the starts of the calendar calls: now and half a minute later
ClockStarts == {now, now + HalfMinute}

\* C21: add_minutes(start, 0) is start; for n > 0 add_minutes(start, n) is
\* the earliest t such that [start, t) contains exactly n working minutes:
\* the working time of [start, t) is n minutes and the half minute that
\* ends at t is working time
AddMinutesIsExact ==
    \A start \in ClockStarts, n \in Durations(bitmap) :
        LET t == add_minutes(bitmap.calendar, start, n)
        IN  IF n = 0 THEN t = start
            ELSE /\ t > start
                 /\ WorkingSeconds(bitmap.calendar, start, t) = n * 60
                 /\ (t - HalfMinute) \div HalfMinute
                        \in WorkingTicks(bitmap.calendar, start, t)

\* the ends of the ranges that begin at now: up to a unit before it, up to
\* MaxWork units after it, and the same time of the next day
RangeEnds ==
    {now + k * bitmap.resolution.unit_seconds : k \in (0 - 1)..MaxWork}
        \cup {now + SecondsPerDay}

\* C22: working_minutes_between(a, b) is 0 when a >= b and otherwise the
\* number of working minutes in [a, b)
WorkingMinutesBetweenIsExact ==
    \A b \in RangeEnds :
        working_minutes_between(bitmap.calendar, now, b) * 60 =
            IF now >= b THEN 0 ELSE WorkingSeconds(bitmap.calendar, now, b)

\* the resolved working intervals of the dates of [a, b]
ResolvedIntervals(cal, a, b) ==
    UNION {Elements(datetime_intervals_for_date(cal, d)) : d \in DateOf(a)..DateOf(b)}

\* C23: working_intervals_in_range(a, b) yields a sequence that is strictly
\* increasing by start, each interval non-empty, inside [a, b) and the
\* clamped intersection of one resolved working interval with [a, b);
\* nothing is yielded when a >= b
IntervalsInRangeAreOrdered ==
    \A b \in RangeEnds :
        LET ivs == working_intervals_in_range(bitmap.calendar, now, b)
        IN  /\ now >= b => ivs = <<>>
            /\ \A k \in 1..Len(ivs) :
                   /\ ivs[k][1] < ivs[k][2]
                   /\ now <= ivs[k][1]
                   /\ ivs[k][2] <= b
                   /\ \E iv \in ResolvedIntervals(bitmap.calendar, now, b) :
                          ivs[k] = <<max2(iv[1], now), min2(iv[2], b)>>
            /\ \A k \in 1..(Len(ivs) - 1) : ivs[k][1] < ivs[k + 1][1]

\* the rule periods of a weekday (none when the rules have no such key)
RulesOf(cal, weekday) ==
    IF weekday \in DOMAIN cal.rules THEN cal.rules[weekday] ELSE <<>>

\* what a rule period of the weekday of the date contributes to the date
SameDayPart(p) == IF is_overnight(p[1], p[2]) THEN <<p[1], Midnight>> ELSE p

\* whether a rule period of the previous weekday has a tail in the date
HasTail(p) == is_overnight(p[1], p[2]) /\ p[2] # Midnight

\* the number of times p is due in the periods of the date d: once for
\* every rule period of the weekday whose same-day part it is, and once for
\* every overnight period of the previous weekday whose tail it is
TimesDue(cal, d, p) ==
    LET today == RulesOf(cal, WeekdayOf(d))
        before == RulesOf(cal, WeekdayOf(d - 1))
    IN  Cardinality({k \in 1..Len(today) : SameDayPart(today[k]) = p})
        + Cardinality({k \in 1..Len(before) :
                          HasTail(before[k]) /\ p = <<Midnight, before[k][2]>>})

\* the periods that are due in the date d
PeriodsDue(cal, d) ==
    {SameDayPart(p) : p \in Elements(RulesOf(cal, WeekdayOf(d)))}
        \cup {<<Midnight, p[2]>> :
                 p \in {q \in Elements(RulesOf(cal, WeekdayOf(d - 1))) : HasTail(q)}}

\* the number of times p occurs in the list
TimesIn(list, p) == Cardinality({k \in 1..Len(list) : list[k] = p})

SortedByStart(list) == \A k \in 1..(Len(list) - 1) : list[k][1] <= list[k + 1][1]

\* C24: for a date d without exception entry, periods_for_date(d) is the
\* list, sorted by start, of the same-day parts of the rule periods of the
\* weekday of d and of the tails (00:00, e) of the overnight periods
\* (s, e), e # 00:00, of the previous weekday, whether or not the previous
\* date has exception entries
RulesResolveWithCarryover ==
    \A d \in ClockDates :
        d \notin DOMAIN bitmap.calendar.exceptions =>
            LET periods == periods_for_date(bitmap.calendar, d)
            IN  /\ SortedByStart(periods)
                /\ Elements(periods) = PeriodsDue(bitmap.calendar, d)
                /\ \A p \in Elements(periods) :
                       TimesIn(periods, p) = TimesDue(bitmap.calendar, d, p)

\* the caller stands in a date without exception entry that follows a date
\* with one, and the date holds the tail of an overnight rule period of the
\* date before as well as a period of its own
RulesResolveWithCarryoverWitness ==
    LET d == DateOf(now)
        periods == periods_for_date(bitmap.calendar, d)
    IN  /\ d \notin DOMAIN bitmap.calendar.exceptions
        /\ (d - 1) \in DOMAIN bitmap.calendar.exceptions
        /\ \E k \in 1..Len(periods) : periods[k][1] = Midnight /\ periods[k][2] # Midnight
        /\ \E k \in 1..Len(periods) : periods[k][2] = Midnight /\ periods[k][1] # Midnight

\* whether the entry is is_working = false without a time range
ClearsDay(entry) ==
    /\ "is_working" \in DOMAIN entry
    /\ ~entry.is_working
    /\ "start" \notin DOMAIN entry
    /\ "end" \notin DOMAIN entry

\* whether the entry is is_working = true
AddsPeriod(entry) == "is_working" \in DOMAIN entry /\ entry.is_working

\* the number of is_working = true entries of the date with the period p
TimesAdded(cal, d, p) ==
    Cardinality({k \in 1..Len(cal.exceptions[d]) :
                    /\ AddsPeriod(cal.exceptions[d][k])
                    /\ p = <<cal.exceptions[d][k].start, cal.exceptions[d][k].end>>})

PeriodsAdded(cal, d) ==
    {<<e.start, e.end>> : e \in {x \in Elements(cal.exceptions[d]) : AddsPeriod(x)}}

IsCleared(cal, d) == \E e \in Elements(cal.exceptions[d]) : ClearsDay(e)

\* C25: for a date d with exception entries, periods_for_date(d) is sorted
\* by start and holds, when an entry is is_working = false without a time
\* range, exactly the (start, end) of the is_working = true entries (no rule
\* period, no carryover); otherwise the rule-derived periods of d and the
\* (start, end) of the is_working = true entries
ExceptionsResolve ==
    \A d \in ClockDates :
        d \in DOMAIN bitmap.calendar.exceptions =>
            LET cal == bitmap.calendar
                periods == periods_for_date(cal, d)
            IN  /\ SortedByStart(periods)
                /\ Elements(periods) =
                       PeriodsAdded(cal, d)
                           \cup (IF IsCleared(cal, d) THEN {} ELSE PeriodsDue(cal, d))
                /\ \A p \in Elements(periods) :
                       TimesIn(periods, p) =
                           TimesAdded(cal, d, p)
                               + (IF IsCleared(cal, d) THEN 0 ELSE TimesDue(cal, d, p))

\* the calendar has a cleared date that rules and a carried tail would
\* fill, and a date with entries that clear nothing, and the caller stands
\* in a period that an exception entry adds
ExceptionsResolveWitness ==
    LET cal == bitmap.calendar
    IN  /\ DateOf(now) \in DOMAIN cal.exceptions
        /\ \E p \in PeriodsAdded(cal, DateOf(now)) :
               /\ Combine(DateOf(now), p[1]) < now
               /\ now <= Combine(DateOf(now), p[2])
        /\ \E d \in ClockDates \cap DOMAIN cal.exceptions :
               /\ IsCleared(cal, d)
               /\ PeriodsAdded(cal, d) # {}
               /\ \E p \in PeriodsDue(cal, d) : p[1] = Midnight
               /\ \E p \in PeriodsDue(cal, d) : p[1] # Midnight
        /\ \E d \in ClockDates \cap DOMAIN cal.exceptions :
               /\ ~IsCleared(cal, d)
               /\ PeriodsAdded(cal, d) # {}
               /\ PeriodsDue(cal, d) # {}
               /\ \E e \in Elements(cal.exceptions[d]) : ~AddsPeriod(e)

\* C26: invariant I3: every span of every record in allocations lies inside
\* [horizon_begin, horizon_end), whatever calls were made (allocate,
\* deallocate, dynamic exceptions, auto-extension, checkpoint and restore)
SpansInsideHorizon ==
    \A k \in 1..Len(bitmap.allocations) :
        \A j \in 1..Len(bitmap.allocations[k].spans) :
            /\ bitmap.horizon_begin <= bitmap.allocations[k].spans[j][1]
            /\ bitmap.allocations[k].spans[j][2] <= horizon_end(bitmap)

\* the caller holds a snapshot of the bitmap before its extension, a
\* record committed since has a span past the horizon of the snapshot, and
\* a call is left for the restore
SpansInsideHorizonWitness ==
    /\ snap # <<>>
    /\ snap[1][1].len < bitmap.bits.len
    /\ snap[1][2] # <<>>
    /\ budget # <<>> /\ budget[1] > 0
    /\ \E k \in 1..Len(bitmap.allocations) :
           \E j \in 1..Len(bitmap.allocations[k].spans) :
               bitmap.allocations[k].spans[j][2] > bitmap.horizon_begin + snap[1][1].len

\* the start of the stretch of free units, at or after pos, that contains
\* the free unit t
RECURSIVE FreeRunStart(_, _, _)
FreeRunStart(bm, pos, t) ==
    IF t = pos \/ ~IsFreeUnit(bm, t - 1) THEN t ELSE FreeRunStart(bm, pos, t - 1)

\* the units of the free runs of [pos, deadline) that are min_split units
\* long or longer (a run ends at the deadline at the latest)
TakeableUnits(bm, pos, min_split, deadline) ==
    {t \in range(pos, deadline) :
        /\ IsFreeUnit(bm, t)
        /\ min2(FreeRunEnd(bm, t), deadline) - FreeRunStart(bm, pos, t) >= min_split}

\* whether the error is the diagnostic due to the call a on the bitmap bm
IsDueDiagnostic(bm, a, error) ==
    LET pos == max2(a.earliest_start, bm.horizon_begin)
        taken == Cardinality(TakeableUnits(bm, pos, a.min_split, a.deadline[1]))
    IN  /\ error.operation_id = a.operation_id
        /\ error.work_units_requested = a.work_units
        /\ error.reason = "deadline"
        /\ ~a.allow_split => error.work_units_remaining = a.work_units
        /\ a.allow_split =>
               /\ error.work_units_remaining = a.work_units - taken
               /\ 0 < error.work_units_remaining
               /\ error.work_units_remaining <= a.work_units

\* C27: an InfeasibleError raised by walk or allocate carries the
\* operation_id of the call, work_units_requested = work_units, the reason
\* "deadline", and work_units_remaining = work_units for a non-splittable
\* call, or, for a splittable call, work_units less the units it can take
\* from the free runs of length >= min_split before the deadline
InfeasibleDiagnostics ==
    \A a \in {c \in WalkInputs(bitmap) : ~IsNone(c.deadline)} :
        LET w == walkA(bitmap, a)
            c == allocateA(bitmap, a)
        IN  /\ w.kind = "InfeasibleError" => IsDueDiagnostic(bitmap, a, w.error[1])
            /\ c.kind = "InfeasibleError" => IsDueDiagnostic(bitmap, a, c.error[1])

\* the units of the window [a, b) that an interval of
\* working_intervals_in_range(a, b) covers, counted from a
CoveredUnits(cal, a, b, epoch, resolution) ==
    {i \in range(0, (b - a) \div resolution.unit_seconds) :
        \E iv \in Elements(working_intervals_in_range(cal, a, b)) :
            LET t == to_int(resolution, a, epoch).value + i
            IN  /\ iv[1] <= to_datetime(resolution, t, epoch)
                /\ to_datetime(resolution, t + 1, epoch) <= iv[2]}

\* whether bm is the bitmap of the calendar over the window [a, b)
IsCalendarBitmap(bm, cal, a, b, epoch, resolution) ==
    /\ bm.horizon_begin = to_int(resolution, a, epoch).value
    /\ bm.bits.len = to_int(resolution, b, epoch).value
                         - to_int(resolution, a, epoch).value
    /\ bm.allocations = <<>>
    /\ bm.bits.ones = CoveredUnits(cal, a, b, epoch, resolution)
    /\ Cardinality(bm.bits.ones) * resolution.unit_seconds = WorkingSeconds(cal, a, b)

\* the ends of the windows that begin at now
WindowEnds == {b \in RangeEnds : b >= now}

\* C28: for a calendar whose periods align to the resolution and a window
\* start_dt <= end_dt aligned to it, from_calendar(cal, start_dt, end_dt,
\* epoch, resolution) has horizon_begin = to_int(start_dt), len(bits) =
\* to_int(end_dt) - to_int(start_dt), no allocations and bits[i] = 1 exactly
\* for the units an interval of working_intervals_in_range(start_dt, end_dt)
\* covers; the number of 1-bits is the working time of the window in units
FromCalendarIsCalendar ==
    to_int(bitmap.resolution, now, bitmap.epoch).raised = "" =>
        \A b \in WindowEnds :
            IsCalendarBitmap(from_calendar(bitmap.calendar, now, b,
                                           bitmap.epoch, bitmap.resolution),
                             bitmap.calendar, now, b, bitmap.epoch, bitmap.resolution)

\* a window that begins inside a working interval, holds working and
\* non-working units and has two overlapping intervals in its range
FromCalendarIsCalendarWitness ==
    /\ to_int(bitmap.resolution, now, bitmap.epoch).raised = ""
    /\ \E b \in WindowEnds :
           LET ivs == working_intervals_in_range(bitmap.calendar, now, b)
               ones == from_calendar(bitmap.calendar, now, b,
                                     bitmap.epoch, bitmap.resolution).bits.ones
           IN  /\ 0 \in ones
               /\ \E iv \in Elements(datetime_intervals_for_date(bitmap.calendar, DateOf(now))) :
                      iv[1] < now /\ now < iv[2]
               /\ Cardinality(ones) >= 2
               /\ Cardinality(ones) < (b - now) \div bitmap.resolution.unit_seconds
               /\ \E j, k \in 1..Len(ivs) :
                      j # k /\ ivs[j][1] < ivs[k][2] /\ ivs[k][1] < ivs[j][2]

\* the datetimes of the second s: with and without half a second, naive and
\* timezone-aware
DatetimesAt(s) ==
    {Datetime(s, microsecond, tzinfo) :
        microsecond \in {0, HalfSecond}, tzinfo \in {NoneVal, Some(0)}}

\* the epochs of the conversions: the epoch of the bitmap and a minute
\* after it
Epochs == DatetimesAt(bitmap.epoch) \cup DatetimesAt(bitmap.epoch + 60)

\* the integer times of the conversions
Offsets == (0 - MaxWork)..MaxWork

IsNaive(dt) == IsNone(dt.tzinfo)

\* whether (dt - epoch) in seconds is a multiple of unit_seconds
IsAligned(resolution, dt, epoch) ==
    HalvesBetween(dt, epoch) % (2 * resolution.unit_seconds) = 0

\* C29: for every naive dt aligned to the unit (and naive epoch)
\* to_datetime(to_int(dt, epoch), epoch) = dt, and for every integer t,
\* negative or not, to_int(to_datetime(t, epoch), epoch) = t
ResolutionRoundTrip ==
    \A resolution \in {MINUTE, HOUR} :
        \A epoch \in {e \in Epochs : IsNaive(e)} :
            /\ \A dt \in {d \in DatetimesAt(now) :
                              IsNaive(d) /\ IsAligned(resolution, d, epoch)} :
                   LET t == TimeResolution_to_int(resolution, dt, epoch)
                   IN  /\ t.raised = ""
                       /\ TimeResolution_to_datetime(resolution, t.value, epoch)
                              = [raised |-> "", value |-> dt]
            /\ \A t \in Offsets :
                   TimeResolution_to_int(resolution,
                       TimeResolution_to_datetime(resolution, t, epoch).value, epoch)
                       = [raised |-> "", value |-> t]

\* now is hours before the epoch of the bitmap, and hours before the
\* epoch that has half a second when it has half a second as well
ResolutionRoundTripWitness ==
    /\ IsAligned(HOUR, Datetime(now, 0, NoneVal), Datetime(bitmap.epoch, 0, NoneVal))
    /\ TimeResolution_to_int(HOUR, Datetime(now, HalfSecond, NoneVal),
                             Datetime(bitmap.epoch, HalfSecond, NoneVal)).value < 0 - 1

\* C30: to_int(dt, epoch) fails with the timezone error when dt or epoch
\* is timezone-aware, fails with the misalignment error exactly when
\* (dt - epoch) in seconds is not a multiple of unit_seconds, and
\* otherwise returns the exact quotient
NoImplicitRounding ==
    \A resolution \in {MINUTE, HOUR} :
        \A epoch \in Epochs, dt \in DatetimesAt(now) :
            LET t == TimeResolution_to_int(resolution, dt, epoch)
            IN  IF ~IsNaive(dt) \/ ~IsNaive(epoch) THEN t.raised = "TypeError"
                ELSE IF ~IsAligned(resolution, dt, epoch) THEN t.raised = "ValueError"
                ELSE /\ t.raised = ""
                     /\ t.value * resolution.unit_seconds * 2 = HalvesBetween(dt, epoch)

\* C31: for a date d that an exception entry clears (is_working = false
\* without a time range), periods_for_date(d) holds the tail (00:00, e) of
\* every overnight period (s, e), e # 00:00, of the previous weekday's rules
ClearedDayKeepsCarryover ==
    \A d \in ClockDates :
        LET cal == bitmap.calendar
        IN  (d \in DOMAIN cal.exceptions /\ IsCleared(cal, d)) =>
                \A p \in Elements(RulesOf(cal, WeekdayOf(d - 1))) :
                    HasTail(p) =>
                        <<Midnight, p[2]>> \in Elements(periods_for_date(cal, d))

\* the calls that start near the end of the horizon with a deadline at or
\* just before the end of the horizon
HorizonEdgeInputs(bm) ==
    {a \in [operation_id : OperationIds,
            earliest_start : {horizon_end(bm) - k : k \in 0..2},
            work_units : 1..MaxWork,
            allow_split : BOOLEAN,
            min_split : 1..MaxMinSplit,
            deadline : {Some(horizon_end(bm) - k) : k \in 0..1}] :
        a.allow_split \/ a.min_split = 1}

\* C32: a walk or allocate called with a deadline <= horizon_end that
\* raises InfeasibleError leaves len(bits) as it was before the call
InfeasibleWithoutExtension ==
    \A a \in {c \in WalkInputs(bitmap) \cup HorizonEdgeInputs(bitmap) :
                 ~IsNone(c.deadline) /\ c.deadline[1] <= horizon_end(bitmap)} :
        LET w == walkA(bitmap, a)
            c == allocateA(bitmap, a)
        IN  /\ w.kind = "InfeasibleError" => w.bitmap.bits.len = bitmap.bits.len
            /\ c.kind = "InfeasibleError" => c.bitmap.bits.len = bitmap.bits.len

\* the ends _extend_to is asked for: before, at and after the end of the
\* horizon, and seven days after it and later
NeededEnds(bm) ==
    LET week == (7 * SecondsPerDay) \div bm.resolution.unit_seconds
    IN  {horizon_end(bm) + k : k \in {0 - 1, 0, 1, week, week + 1}}

\* what _extend_to(needed_end) does to the bitmap bm
ExtendToEffect(bm, needed_end) ==
    LET after == extend_to(bm, needed_end)
        week == (7 * SecondsPerDay) \div bm.resolution.unit_seconds
    IN  IF needed_end <= horizon_end(bm) THEN after = bm
        ELSE /\ horizon_end(after) = max2(needed_end, horizon_end(bm) + week)
             /\ after.horizon_begin = bm.horizon_begin
             /\ after.allocations = bm.allocations
             /\ {i \in after.bits.ones : i < bm.bits.len} = bm.bits.ones

\* a call of walk, allocate, deallocate or apply_dynamic_exception
CallWithoutRestore == Walk \/ Allocate \/ Deallocate \/ DynamicException

\* C33: _extend_to(needed_end) changes nothing when needed_end <=
\* horizon_end; otherwise the new horizon_end is max(needed_end, old
\* horizon_end + 7 days in units), horizon_begin and allocations are
\* unchanged and every bit below the old horizon_end keeps its value;
\* horizon_end never decreases under walk, allocate, deallocate and
\* apply_dynamic_exception
ExtensionStep ==
    /\ [](\A needed_end \in NeededEnds(bitmap) : ExtendToEffect(bitmap, needed_end))
    /\ [][CallWithoutRestore => horizon_end(bitmap') >= horizon_end(bitmap)]_vars

\* a bitmap with a committed record (bits at 0 in working time) that a call
\* has extended
ExtensionStepWitness ==
    /\ Len(bitmap.allocations) >= 1
    /\ bitmap.bits.len > built.bits.len
    /\ \E i \in range(0, built.bits.len) : i \in built.bits.ones /\ i \notin bitmap.bits.ones

\* whether the bitmap over [a, b), extended to needed_end, is the bitmap
\* from_calendar builds over [a, new horizon_end)
ExtendedIsConstructed(cal, a, b, epoch, resolution, k) ==
    LET bm == from_calendar(cal, a, b, epoch, resolution)
        extended == extend_to(bm, horizon_end(bm) + k)
    IN  extended = from_calendar(cal, a,
                       to_datetime(resolution, horizon_end(extended), epoch),
                       epoch, resolution)

\* the units _extend_to is asked for past the end of the horizon: one, and
\* more than the seven days of the smallest extension (eight days)
ExtensionSizes(resolution) == {1, (8 * SecondsPerDay) \div resolution.unit_seconds}

\* C34: a bitmap created over [a, b) and then extended has exactly the bits
\* (and the other fields) of a bitmap created directly over [a, c), c the
\* new end of the horizon, from the same calendar, resolution and epoch,
\* also when b falls inside a working period or inside an overnight period
ExtensionAgreesWithConstruction ==
    to_int(bitmap.resolution, now, bitmap.epoch).raised = "" =>
        \A b \in WindowEnds, k \in ExtensionSizes(bitmap.resolution) :
            ExtendedIsConstructed(bitmap.calendar, now, b, bitmap.epoch,
                                  bitmap.resolution, k)

\* a window that ends inside the tail of an overnight period of the day
\* before, with working time before and after its end
ExtensionAgreesWithConstructionWitness ==
    /\ to_int(bitmap.resolution, now, bitmap.epoch).raised = ""
    /\ \E b \in WindowEnds :
           LET bm == from_calendar(bitmap.calendar, now, b, bitmap.epoch,
                                   bitmap.resolution)
               extended == extend_to(bm, horizon_end(bm) + 1)
           IN  /\ b > now
               /\ \E p \in Elements(RulesOf(bitmap.calendar, WeekdayOf(DateOf(b) - 1))) :
                      /\ HasTail(p)
                      /\ Combine(DateOf(b), Midnight) < b
                      /\ b < Combine(DateOf(b), p[2])
               /\ bm.bits.len - 1 \in extended.bits.ones
               /\ bm.bits.len \in extended.bits.ones
               /\ extended.bits.len > bm.bits.len

\* C35: a record r returned by allocate before snap = checkpoint() is
\* still releasable after restore(snap): deallocate(bm, r) with that same
\* object frees its bits and leaves no entry for r in allocations, and
\* the units of the records that remain have bit 0.  (restore puts unpickled
\* copies into allocations, so no position holds the object r.)
ReleasableAfterRestore ==
    snap # <<>> =>
        \A k \in 1..Len(snap[1][2]) :
            LET r == snap[1][2][k]
                after == deallocate(restore(bitmap, snap[1]), r, {}).bitmap
            IN  /\ \A u \in RecordUnits(r) : BitAt(after.bits, u - after.horizon_begin) = 1
                /\ r \notin Elements(after.allocations)
                /\ \A j \in 1..Len(after.allocations) :
                       \A u \in RecordUnits(after.allocations[j]) :
                           BitAt(after.bits, u - after.horizon_begin) = 0

\* the ranges of the capacity removals: inside the horizon, and from inside
\* it to past its end
RemovedRanges(bm) ==
    {<<bm.horizon_begin + 1, bm.horizon_begin + 3>>,
     <<bm.horizon_begin + 4, bm.horizon_begin + 5>>,
     <<bm.horizon_begin + 1, bm.horizon_begin + 6>>}

\* the bitmaps a caller reaches from bm by at most one deallocate of a
\* record of allocations that does not raise
AfterReleases(bm) ==
    {bm} \cup
    {r.bitmap : r \in {x \in {deallocate(bm, bm.allocations[k], {k}) :
                                 k \in 1..Len(bm.allocations)} : x.raised = ""}}

\* whether the capacity removed from [begin, end) of the bitmap removed is
\* still removed in the later bitmap bm: the units of the range inside the
\* horizon of removed have bit 0 and no walk returns a span in the range
StaysRemoved(removed, bm, begin, end) ==
    /\ \A u \in range(max2(begin, removed.horizon_begin), min2(end, horizon_end(removed))) :
           BitAt(bm.bits, u - bm.horizon_begin) = 0
    /\ \A a \in WalkInputs(bm) :
           LET w == walkA(bm, a)
           IN  w.kind = "record" => RecordUnits(w.record[1]) \cap range(begin, end) = {}

\* C36: after apply_dynamic_exception(bm, begin, end, is_working = false),
\* in the states reached through walk, allocate and deallocate (of the
\* records of the conflict report too) every unit of [begin, end) inside
\* the horizon has bit 0 and no record returned by a later walk or allocate
\* has a span intersecting [begin, end)
RemovedStaysRemoved ==
    \A rg \in RemovedRanges(bitmap) :
        LET removed == apply_dynamic_exception(bitmap, rg[1], rg[2], FALSE).bitmap
        IN  \A later \in AfterReleases(removed) :
                StaysRemoved(removed, later, rg[1], rg[2])

\* C37: a walk that returns a record, called again with the same arguments
\* on the bitmap it left (extended or not), returns an equal record, and
\* allocate called right after it with the same arguments commits exactly
\* that record
WalkIsRepeatable ==
    \A a \in WalkInputs(bitmap) :
        LET first == walkA(bitmap, a)
            second == walkA(first.bitmap, a)
            commit == allocateA(first.bitmap, a)
        IN  first.kind = "record" =>
                /\ second.kind = "record"
                /\ second.record = first.record
                /\ commit.kind = "record"
                /\ commit.record = first.record
                /\ commit.bitmap.allocations = Append(bitmap.allocations, first.record[1])

\* C38: when allocate raises InfeasibleError the allocations list is as
\* before the call and every bit that existed before the call has the
\* value it had (the bitmap may have been extended), the spans a splittable
\* walk had gathered before the deadline included
FailedAllocateCommitsNothing ==
    \A a \in WalkInputs(bitmap) \cup HorizonEdgeInputs(bitmap) :
        LET c == allocateA(bitmap, a)
        IN  c.kind = "InfeasibleError" =>
                /\ c.bitmap.allocations = bitmap.allocations
                /\ c.bitmap.bits.len >= bitmap.bits.len
                /\ {i \in c.bitmap.bits.ones : i < bitmap.bits.len} = bitmap.bits.ones
                /\ c.bitmap.horizon_begin = bitmap.horizon_begin

\* a bitmap with a committed record on which a splittable allocate raises
\* after it has gathered a span, and a non-splittable allocate raises
\* after it has extended the bitmap
FailedAllocateCommitsNothingWitness ==
    /\ Len(bitmap.allocations) >= 1
    /\ \E a \in WalkInputs(bitmap) :
           LET c == allocateA(bitmap, a)
           IN  /\ a.allow_split
               /\ c.kind = "InfeasibleError"
               /\ c.error[1].work_units_remaining < a.work_units
    /\ \E a \in HorizonEdgeInputs(bitmap) :
           LET c == allocateA(bitmap, a)
           IN  /\ c.kind = "InfeasibleError"
               /\ c.bitmap.bits.len > bitmap.bits.len

\* CalIdle: a calendar with no working time at all
CalIdle == WorkingCalendar("idle", <<>>, <<>>)

\* the bitmaps of the calls with a deadline: the bitmap, and the bitmap
\* with its bits and records over the calendar without working time
DeadlineBitmaps ==
    {bitmap, [bitmap EXCEPT !.calendar = CalIdle]}

\* a deadline more than the seven days of an extension after the start
FarDeadline == DEFAULT_EXTEND_DAYS * UNITS_PER_DAY + 10

\* the calls with a finite deadline: inside the window, just past it, and
\* past the first extension; and a call that starts one unit before the end
\* of the horizon with the end of the horizon as its deadline
DeadlineInputs(bm) ==
    {a \in [operation_id : OperationIds,
            earliest_start : {bm.horizon_begin + k : k \in StartOffsets}
                                 \cup {horizon_end(bm) - 1},
            work_units : {1, MaxWork},
            allow_split : BOOLEAN,
            min_split : {1, MaxMinSplit},
            deadline : {Some(bm.horizon_begin + k) : k \in DeadlineOffsets \cup {FarDeadline}}
                           \cup {Some(horizon_end(bm))}] :
        /\ a.allow_split \/ a.min_split = 1
        /\ a.earliest_start = horizon_end(bm) - 1 <=> a.deadline = Some(horizon_end(bm))}

\* how far a call with a deadline can have extended the bitmap
ExtensionLimit(bm, a) ==
    max2(horizon_end(bm), a.deadline[1])
        + DEFAULT_EXTEND_DAYS * UNITS_PER_DAY + EXTEND_BUFFER + a.work_units

\* whether the call ended by returning a record or raising InfeasibleError,
\* the bitmap extended no further than ExtensionLimit
EndsWithin(bm, a, r) ==
    /\ r.kind \in {"record", "InfeasibleError"}
    /\ horizon_end(r.bitmap) <= ExtensionLimit(bm, a)

\* C39: every walk or allocate with work_units >= 1 and a finite deadline
\* ends after finitely many extension steps, returning a record or raising
\* InfeasibleError, splittable or not, for every bitmap state and also for
\* a calendar with no working time at all (allocate ends as its walk ends
\* and then commits the record)
TerminatesUnderDeadline ==
    \A bm \in DeadlineBitmaps :
        \A a \in DeadlineInputs(bm) : EndsWithin(bm, a, allocateA(bm, a))

\* on the bitmap of the calendar without working time a call with the far
\* deadline raises after it has extended the bitmap more than once, and on
\* the bitmap with a committed record a splittable call with the far
\* deadline returns a record from the extension
TerminatesUnderDeadlineWitness ==
    /\ Len(bitmap.allocations) >= 1
    /\ \E a \in DeadlineInputs(bitmap) :
           LET idle == [bitmap EXCEPT !.calendar = CalIdle]
               w == walkA(idle, a)
           IN  /\ w.kind = "InfeasibleError"
               /\ horizon_end(w.bitmap) >
                      horizon_end(bitmap) + DEFAULT_EXTEND_DAYS * UNITS_PER_DAY
    /\ \E a \in DeadlineInputs(bitmap) :
           LET w == walkA(bitmap, a)
           IN  /\ a.allow_split
               /\ w.kind = "record"
               /\ w.record[1].finish > horizon_end(bitmap)

\* C40: for every datetime a and every n >= 1,
\* working_minutes_between(a, add_minutes(a, n)) = n, also for a calendar in
\* which an overnight tail or a working exception overlaps another period
\* of the same date
CountingAgreesWithWalking ==
    \A n \in Durations(bitmap) \ {0} :
        working_minutes_between(bitmap.calendar, now,
                                add_minutes(bitmap.calendar, now, n)) = n

====
